---- MODULE Spec2Model ----
(***************************************************************************)
(* Verification model of pesiki-bot:                                       *)
(*   - period windows          (src/src/stats.ts, src/src/utils.ts)        *)
(*   - per-player aggregation  (src/src/stats.ts, calculateStats)          *)
(*   - nominations             (formatter.ts as appended to src/PRD.md,    *)
(*                              lines 98-883: calculateNominations with    *)
(*                              the per-player cap)                        *)
(*                                                                         *)
(*   - the OpenDota client     (opendota.ts as carried by                  *)
(*                              src/src/test-formatter.ts, lines 66-299:   *)
(*                              rate limiting and retries)                 *)
(*   - the LFG polling loop    (lfg.ts, src/unnamed/part_024)              *)
(*                                                                         *)
(* In the statistics part time is kept in whole seconds; the client and    *)
(* the polling loop keep it in milliseconds, as the source does.  For the  *)
(* statistics the source works in milliseconds                             *)
(* (Date.getTime, Date.UTC) and divides by 1000 at the end; every value it *)
(* builds is a whole number of hours, and of "now" only the fields from    *)
(* the hour upwards are read, so the millisecond part never matters.       *)
(***************************************************************************)
EXTENDS Integers, Sequences, FiniteSets, TLC

VARIABLES
    \* ---- the wall clock and one filterMatchesByPeriod call (stats.ts)
    now,            \* what `new Date()` returns at this moment, epoch seconds
    ticks,          \* how often the clock has advanced (bounded)
    pcW,            \* position of the window computation
    period,         \* the StatsPeriod requested
    periodStart,    \* <<>> before it is computed, else <<seconds>>
    periodEnd,      \* <<>> for null (or not yet computed), else <<seconds>>
    startClock,     \* the clock value read while computing periodStart
    endClock,       \* the clock value read while computing periodEnd
    \* ---- one formatStatsMessage / calculateNominations call (formatter)
    allStats,               \* PlayerStats[] handed to formatStatsMessage
    activePlayers,          \* argument of calculateNominations
    heroNamesMap,           \* playerId -> <<>> (no entry) or <<names>>
    pc,                     \* position inside calculateNominations
    nominations,            \* the result list being built
    playerNominationCount,  \* playerId -> awards held so far
    evalLog,                \* per evaluated category: what addNomination saw
    outcome,                \* "running" | "returned" | "threw"
    nomResults,             \* what the earlier calculateNominations calls gave
    lines,                  \* the message lines formatStatsMessage has built
    \* ---- calls of calculateStats (stats.ts)
    matches,          \* the RecentMatch[] argument
    filteredMatches,  \* what filterMatchesByPeriod returned to the current call
    results,          \* the PlayerStats returned by the calls made so far
    pcS,              \* position inside calculateStats
    \* ---- one call of groupHeroes (formatter)
    gHeroes,          \* the HeroMatch[] argument
    gHeroNames,       \* the heroNames argument
    gResult,          \* the GroupedHero[] returned
    pcG,              \* "idle" | "call" | "returned" | "threw"
    \* ---- the OpenDota client (opendota.ts): rate limiter and fetches
    clockMs,          \* Date.now() of the client, milliseconds
    lastRequestTime,  \* module variable of the rate limiter
    fetchers,         \* per fetchWithRateLimit call: its position and locals
    requests,         \* the HTTP requests started so far, in order
    failures,         \* how many requests the server has not answered OK
    \* ---- the LFG polling loop (lfg.ts)
    lfgNow,                \* Date.now() of the polling loop, milliseconds
    pollsRun,              \* polls started so far (bounded)
    isWarmupComplete,      \* module variable
    wasPlayingDota,        \* Map playerId -> boolean; <<>> is no entry
    lastNotificationTime,  \* Map playerId -> time; <<>> is no entry
    polls,                 \* the checkPlayersAndNotify calls in progress
    lastSent               \* per player the times of the last notifications

timeVars == <<now, ticks, pcW, period, periodStart, periodEnd, startClock, endClock>>
nomVars  == <<allStats, activePlayers, heroNamesMap, pc, nominations,
              playerNominationCount, evalLog, outcome, nomResults, lines>>
statVars == <<matches, filteredMatches, results, pcS>>
groupVars == <<gHeroes, gHeroNames, gResult, pcG>>
netVars  == <<clockMs, lastRequestTime, fetchers, requests, failures>>
lfgVars  == <<lfgNow, pollsRun, isWarmupComplete, wasPlayingDota,
              lastNotificationTime, polls, lastSent>>
vars     == <<now, ticks, pcW, period, periodStart, periodEnd, startClock, endClock,
              allStats, activePlayers, heroNamesMap, pc, nominations,
              playerNominationCount, evalLog, outcome, nomResults, lines,
              matches, filteredMatches, results, pcS,
              gHeroes, gHeroNames, gResult, pcG,
              clockMs, lastRequestTime, fetchers, requests, failures,
              lfgNow, pollsRun, isWarmupComplete, wasPlayingDota,
              lastNotificationTime, polls, lastSent>>

\* ------------------------------------------------------------------------
\* Program constants
\* ------------------------------------------------------------------------
MSK_OFFSET_HOURS == 3
DAY_START_HOUR_MSK == 6
LONG_MATCH_THRESHOLD_SECONDS == 45 * 60

\* ------------------------------------------------------------------------
\* The JavaScript Date primitives the code relies on (proleptic Gregorian
\* calendar, UTC).  Months are 0-based as in JavaScript.
\* ------------------------------------------------------------------------

\* Days since 1970-01-01 of the civil date y-m-d, m in 1..12, d in 1..31.
DaysFromCivil(y, m, d) ==
    LET yy  == IF m <= 2 THEN y - 1 ELSE y
        era == yy \div 400
        yoe == yy - era * 400
        mp  == IF m > 2 THEN m - 3 ELSE m + 9
        doy == (153 * mp + 2) \div 5 + d - 1
        doe == yoe * 365 + yoe \div 4 - yoe \div 100 + doy
    IN  era * 146097 + doe - 719468

\* The civil date of a day number: [year, month (0-based), date].
CivilFromDays(z) ==
    LET zz  == z + 719468
        era == zz \div 146097
        doe == zz - era * 146097
        yoe == (doe - doe \div 1460 + doe \div 36524 - doe \div 146096) \div 365
        doy == doe - (365 * yoe + yoe \div 4 - yoe \div 100)
        mp  == (5 * doy + 2) \div 153
        d   == doy - (153 * mp + 2) \div 5 + 1
        m   == IF mp < 10 THEN mp + 3 ELSE mp - 9
        y   == yoe + era * 400 + (IF m <= 2 THEN 1 ELSE 0)
    IN  [year |-> y, month |-> m - 1, date |-> d]

\* Date.UTC(year, month, date, hours, 0, 0, 0) / 1000.  Out-of-range month and
\* date are normalised: month -1 is December of year-1, date 0 is the last
\* day of the month before, date -1 the day before that.
DateUTC(year, month, date, hours) ==
    LET y == year + (month \div 12)
        m == month % 12
    IN  (DaysFromCivil(y, m + 1, 1) + (date - 1)) * 86400
          + hours * 3600

\* getUTCFullYear / getUTCMonth / getUTCDate / getUTCHours / getUTCDay of the
\* Date whose getTime() / 1000 is t.
UTCFields(t) ==
    LET days == t \div 86400
        c    == CivilFromDays(days)
    IN  [year  |-> c.year,
         month |-> c.month,
         date  |-> c.date,
         hours |-> (t % 86400) \div 3600,
         day   |-> (days + 4) % 7]

\* ------------------------------------------------------------------------
\* src/src/utils.ts
\* ------------------------------------------------------------------------

\* getMskTimeComponents(), with the value of `new Date()` passed as clock.
getMskTimeComponents(clock) ==
    UTCFields(clock + MSK_OFFSET_HOURS * 60 * 60)

\* ------------------------------------------------------------------------
\* src/src/stats.ts: period windows
\* ------------------------------------------------------------------------
StatsPeriod == {"today", "yesterday", "week", "month"}

mskToUtcTimestamp(year, month, date, hours) ==
    DateUTC(year, month, date, hours) - MSK_OFFSET_HOURS * 60 * 60

getMskHourFromStartTime(startTimeSeconds) ==
    UTCFields(startTimeSeconds + MSK_OFFSET_HOURS * 60 * 60).hours

\* Mutant: 06:00 itself still counts as before the day start.
BeforeDayStartInclusive(msk) == msk.hours <= DAY_START_HOUR_MSK

\* `hours < DAY_START_HOUR_MSK`: the test all four periods share.
BeforeDayStart(msk) == msk.hours < DAY_START_HOUR_MSK

\* Mutant: before 06:00 the day start is taken two days back.
PeriodStartTodayTwoDaysBack(msk) ==
    IF BeforeDayStart(msk)
    THEN LET prevDay == UTCFields(DateUTC(msk.year, msk.month, msk.date - 2, 0))
         IN  mskToUtcTimestamp(prevDay.year, prevDay.month, prevDay.date,
                               DAY_START_HOUR_MSK)
    ELSE mskToUtcTimestamp(msk.year, msk.month, msk.date, DAY_START_HOUR_MSK)

PeriodStartToday(msk) ==
    IF BeforeDayStart(msk)
    THEN LET prevDay == UTCFields(DateUTC(msk.year, msk.month, msk.date - 1, 0))
         IN  mskToUtcTimestamp(prevDay.year, prevDay.month, prevDay.date,
                               DAY_START_HOUR_MSK)
    ELSE mskToUtcTimestamp(msk.year, msk.month, msk.date, DAY_START_HOUR_MSK)

\* Mutant: always one day back, also before 06:00.
PeriodStartYesterdayOneDayBack(msk) ==
    LET prevDay == UTCFields(DateUTC(msk.year, msk.month, msk.date - 1, 0))
    IN  mskToUtcTimestamp(prevDay.year, prevDay.month, prevDay.date,
                          DAY_START_HOUR_MSK)

PeriodStartYesterday(msk) ==
    LET daysBack == IF BeforeDayStart(msk) THEN 2 ELSE 1
        prevDay  == UTCFields(DateUTC(msk.year, msk.month, msk.date - daysBack, 0))
    IN  mskToUtcTimestamp(prevDay.year, prevDay.month, prevDay.date,
                          DAY_START_HOUR_MSK)

\* Mutant: a Monday before 06:00 is not rolled back to the previous week.
PeriodStartWeekNoRollback(msk) ==
    LET dayOfWeek    == msk.day
        daysToMonday == IF dayOfWeek = 0 THEN 6 ELSE dayOfWeek - 1
        mondayDate   == UTCFields(DateUTC(msk.year, msk.month,
                                          msk.date - daysToMonday, 0))
    IN  mskToUtcTimestamp(mondayDate.year, mondayDate.month, mondayDate.date,
                          DAY_START_HOUR_MSK)

PeriodStartWeek(msk) ==
    LET dayOfWeek    == msk.day
        daysToMonday == IF dayOfWeek = 0 THEN 6 ELSE dayOfWeek - 1
        adjustedDays == IF daysToMonday = 0 /\ BeforeDayStart(msk)
                        THEN 7 ELSE daysToMonday
        mondayDate   == UTCFields(DateUTC(msk.year, msk.month,
                                          msk.date - adjustedDays, 0))
    IN  mskToUtcTimestamp(mondayDate.year, mondayDate.month, mondayDate.date,
                          DAY_START_HOUR_MSK)

\* Mutant: the previous month by manual modulo, the year left as it is.
PeriodStartMonthNoYearRollover(msk) ==
    IF msk.date = 1 /\ BeforeDayStart(msk)
    THEN mskToUtcTimestamp(msk.year, (msk.month + 11) % 12, 1, DAY_START_HOUR_MSK)
    ELSE mskToUtcTimestamp(msk.year, msk.month, 1, DAY_START_HOUR_MSK)

PeriodStartMonth(msk) ==
    IF msk.date = 1 /\ BeforeDayStart(msk)
    THEN LET prevMonth == UTCFields(DateUTC(msk.year, msk.month - 1, 1, 0))
         IN  mskToUtcTimestamp(prevMonth.year, prevMonth.month, 1,
                               DAY_START_HOUR_MSK)
    ELSE mskToUtcTimestamp(msk.year, msk.month, 1, DAY_START_HOUR_MSK)

\* getPeriodStartTimestamp(period), reading the clock value `clock`.
getPeriodStartTimestamp(p, clock) ==
    LET msk == getMskTimeComponents(clock)
    IN  CASE p = "today"     -> PeriodStartToday(msk)
          [] p = "yesterday" -> PeriodStartYesterday(msk)
          [] p = "week"      -> PeriodStartWeek(msk)
          [] p = "month"     -> PeriodStartMonth(msk)

\* getPeriodEndTimestamp(period): <<>> is null.
getPeriodEndTimestamp(p, clock) ==
    IF p # "yesterday" THEN <<>> ELSE <<getPeriodStartTimestamp("today", clock)>>

\* ------------------------------------------------------------------------
\* Arithmetic helpers.  Ratios the code computes in floating point are kept
\* as pairs <<numerator, denominator>> and compared exactly; <<0, 0>> is the
\* NaN that 0 / 0 gives.
\* ------------------------------------------------------------------------

\* Math.round(n / d) for n >= 0, d > 0 (halves round up).
MathRoundDiv(n, d) == (2 * n + d) \div (2 * d)

IsNaN(v) == v[2] = 0

\* Sign of a - b for two ratios with positive denominators.
CmpRatio(a, b) ==
    LET l == a[1] * b[2]
        r == b[1] * a[2]
    IN  IF l < r THEN -1 ELSE IF l > r THEN 1 ELSE 0

\* Sum of xs[lo..hi], by halves to keep the evaluation shallow.
RECURSIVE SumRange(_, _, _)
SumRange(xs, lo, hi) ==
    IF lo > hi THEN 0
    ELSE IF lo = hi THEN xs[lo]
    ELSE LET mid == (lo + hi) \div 2
         IN  SumRange(xs, lo, mid) + SumRange(xs, mid + 1, hi)

\* Sum of a sequence of numbers (Array.prototype.reduce with +, from 0).
SumOver(xs) == SumRange(xs, 1, Len(xs))


\* Array.prototype.sort with a comparator that is a consistent ordering;
\* before[i][j] says the comparator is negative on (s[i], s[j]).  The sort is
\* stable, so elements the comparator calls equal keep their input order.
StableSort(s, before) ==
    LET n == Len(s)
        Rank(i) == 1 + Cardinality({j \in 1..n :
                          \/ before[j][i]
                          \/ (~before[i][j] /\ j < i)})
    IN  [k \in 1..n |-> s[CHOOSE i \in 1..n : Rank(i) = k]]

\* All orderings of a sequence: what a sort may return when its comparator
\* is not a consistent ordering (the result is then implementation-defined).
Orderings(s) ==
    LET n == Len(s)
        Perms == {f \in [1..n -> 1..n] : \A i, j \in 1..n : i # j => f[i] # f[j]}
    IN  {[k \in 1..n |-> s[f[k]]] : f \in Perms}

\* ------------------------------------------------------------------------
\* src/src/stats.ts: calculateStats
\* ------------------------------------------------------------------------

\* Mutant: the player's side is not looked at.
isWinRadiantOnly(match) == match.radiant_win

\* isWin(match)
isWin(match) ==
    LET isRadiant == match.player_slot < 128
    IN  isRadiant = match.radiant_win

\* Mutant: a match starting exactly at the window end is still kept.
KeepMatchEndInclusive(match, start, end) ==
    IF match.start_time < start THEN FALSE
    ELSE IF end # <<>> /\ match.start_time > end[1] THEN FALSE
    ELSE TRUE

\* The callback of matches.filter in filterMatchesByPeriod; <<>> is null.
KeepMatch(match, start, end) ==
    IF match.start_time < start THEN FALSE
    ELSE IF end # <<>> /\ match.start_time >= end[1] THEN FALSE
    ELSE TRUE

\* filterMatchesByPeriod, given the two bounds it computed.
FilterByWindow(ms, start, end) ==
    LET Keep(m) == KeepMatch(m, start, end)
    IN  SelectSeq(ms, Keep)

\* Mutant: the percentage is cut off instead of rounded.
WinRateFloor(wins, totalMatches) ==
    IF totalMatches > 0 THEN (wins * 100) \div totalMatches ELSE 0

\* totalMatches > 0 ? Math.round((wins / totalMatches) * 100) : 0
WinRate(wins, totalMatches) ==
    IF totalMatches > 0 THEN MathRoundDiv(wins * 100, totalMatches) ELSE 0

\* Mutant: with no deaths the KDA is left at 0 instead of kills + assists.
AvgKdaZeroWithoutDeaths(totalKills, totalDeaths, totalAssists, totalMatches) ==
    IF totalMatches > 0
    THEN IF totalDeaths > 0
         THEN <<MathRoundDiv((totalKills + totalAssists) * 100, totalDeaths)>>
         ELSE <<0>>
    ELSE <<>>

\* avgKda in hundredths; <<>> is undefined.  Math.round(kda * 100) / 100 is
\* taken on the exact quotient.
AvgKda(totalKills, totalDeaths, totalAssists, totalMatches) ==
    IF totalMatches > 0
    THEN IF totalDeaths > 0
         THEN <<MathRoundDiv((totalKills + totalAssists) * 100, totalDeaths)>>
         ELSE <<(totalKills + totalAssists) * 100>>
    ELSE <<>>

\* Mutant: a match of exactly 45 minutes is not long.
IsLongMatchStrict(match) == match.duration > LONG_MATCH_THRESHOLD_SECONDS

\* match.duration >= LONG_MATCH_THRESHOLD_SECONDS
IsLongMatch(match) == match.duration >= LONG_MATCH_THRESHOLD_SECONDS

\* mskHour >= 0 && mskHour < 6
IsNightHour(mskHour) == mskHour >= 0 /\ mskHour < 6

\* the else-if branch: mskHour >= 6 && mskHour < 12
IsMorningHour(mskHour) == ~IsNightHour(mskHour) /\ mskHour >= 6 /\ mskHour < 12

\* Lines 192-264 of calculateStats: the aggregate of the filtered matches.
\* avgKda is in hundredths, <<>> when undefined; avgDurationSeconds is the
\* ratio <<totalDurationSeconds, totalMatches>> (<<0, 1>> without matches).
AggregateStats(playerId, playerName, fms, avgApm, rank) ==
    LET n == Len(fms)
        IsLong(m)   == IsLongMatch(m)
        LongWin(m)  == IsLong(m) /\ isWin(m)
        Night(m)    == IsNightHour(getMskHourFromStartTime(m.start_time))
        Morning(m)  == IsMorningHour(getMskHourFromStartTime(m.start_time))
        wins         == Len(SelectSeq(fms, isWin))
        totalMatches == Len(fms)
        totalKills   == SumOver([i \in 1..n |-> fms[i].kills])
        totalDeaths  == SumOver([i \in 1..n |-> fms[i].deaths])
        totalAssists == SumOver([i \in 1..n |-> fms[i].assists])
        totalDuration == SumOver([i \in 1..n |-> fms[i].duration])
    IN  [playerId   |-> playerId,
         playerName |-> playerName,
         wins       |-> wins,
         losses     |-> totalMatches - wins,
         totalMatches |-> totalMatches,
         winRate    |-> WinRate(wins, totalMatches),
         heroes     |-> [i \in 1..totalMatches |->
                           [heroId |-> fms[i].hero_id,
                            isWin  |-> isWin(fms[i])]],
         avgApm     |-> avgApm,
         avgKda     |-> AvgKda(totalKills, totalDeaths, totalAssists, totalMatches),
         rank       |-> rank,
         totalKills   |-> totalKills,
         totalDeaths  |-> totalDeaths,
         totalAssists |-> totalAssists,
         totalDurationSeconds |-> totalDuration,
         avgDurationSeconds   |-> IF totalMatches > 0
                                  THEN <<totalDuration, totalMatches>>
                                  ELSE <<0, 1>>,
         longMatches    |-> Len(SelectSeq(fms, IsLong)),
         longWins       |-> Len(SelectSeq(fms, LongWin)),
         nightMatches   |-> Len(SelectSeq(fms, Night)),
         morningMatches |-> Len(SelectSeq(fms, Morning))]

\* calculateStats(playerId, playerName, matches, period, avgApm, rank) when
\* both clock reads of filterMatchesByPeriod return `clock`.
calculateStats(playerId, playerName, ms, p, avgApm, rank, clock) ==
    AggregateStats(playerId, playerName,
                   FilterByWindow(ms, getPeriodStartTimestamp(p, clock),
                                  getPeriodEndTimestamp(p, clock)),
                   avgApm, rank)

\* ------------------------------------------------------------------------
\* src/src/heroes.ts.  Names (of heroes and of players) are represented by
\* their rank in collation order, so a.localeCompare(b) < 0 iff a < b.
\* ------------------------------------------------------------------------
UnknownName == 9

\* hero.localized_name of the heroes the API knows.
KnownHeroes == {1, 2, 3}
LocalizedName(id) == id

\* getHeroNames(heroIds)
getHeroNames(heroIds) ==
    [i \in 1..Len(heroIds) |->
        IF heroIds[i] \in KnownHeroes THEN LocalizedName(heroIds[i])
                                      ELSE UnknownName]

\* ------------------------------------------------------------------------
\* formatter.ts (src/PRD.md 98-883)
\* ------------------------------------------------------------------------

\* The k-th smallest element of a finite set of integers.
KthSmallest(S, k) == CHOOSE x \in S : Cardinality({y \in S : y < x}) = k - 1

\* groupHeroes before its final sort: one entry per distinct heroId in order
\* of first appearance (Map insertion order).  name is <<>> when
\* heroNames[index] is undefined.
GroupedInsertionOrder(heroes, heroNames) ==
    LET n      == Len(heroes)
        First  == {i \in 1..n : \A j \in 1..(i - 1) : heroes[j].heroId # heroes[i].heroId}
        Entry(i) ==
            [heroId |-> heroes[i].heroId,
             name   |-> IF i <= Len(heroNames) THEN <<heroNames[i]>> ELSE <<>>,
             wins   |-> Cardinality({j \in 1..n : heroes[j].heroId = heroes[i].heroId
                                                  /\ heroes[j].isWin}),
             losses |-> Cardinality({j \in 1..n : heroes[j].heroId = heroes[i].heroId
                                                  /\ ~heroes[j].isWin})]
    IN  [k \in 1..Cardinality(First) |-> Entry(KthSmallest(First, k))]

\* The sort of groupHeroes reaches a.name.localeCompare(b.name) for two
\* entries of equal totals; with a.name undefined that is a TypeError.  (The
\* names of one player are all present or all absent here.)
groupHeroesThrows(heroes, heroNames) ==
    LET g == GroupedInsertionOrder(heroes, heroNames)
    IN  \E i, j \in 1..Len(g) :
            /\ i # j
            /\ g[i].wins + g[i].losses = g[j].wins + g[j].losses
            /\ g[i].name = <<>>
            /\ g[j].name = <<>>

\* Mutant: the entries are returned in Map insertion order, unsorted.
groupHeroesUnsorted(heroes, heroNames) ==
    GroupedInsertionOrder(heroes, heroNames)

\* groupHeroes(heroes, heroNames) when it does not throw.
groupHeroes(heroes, heroNames) ==
    LET NameKey(e) == IF e.name = <<>> THEN 0 ELSE e.name[1]
        Before(a, b) ==
            LET totalA == a.wins + a.losses
                totalB == b.wins + b.losses
            IN  IF totalB # totalA THEN totalB - totalA < 0
                                   ELSE NameKey(a) < NameKey(b)
    IN  LET xs == GroupedInsertionOrder(heroes, heroNames)
            before == [i \in 1..Len(xs) |-> [j \in 1..Len(xs) |->
                          Before(xs[i], xs[j])]]
        IN  StableSort(xs, before)

\* Mutant: players are sorted by matches played only, win rate not compared.
sortByMatchesOnly(stats) ==
    LET Cmp(a, b) ==
            IF a.totalMatches = 0 /\ b.totalMatches > 0 THEN 1
            ELSE IF a.totalMatches > 0 /\ b.totalMatches = 0 THEN -1
            ELSE b.totalMatches - a.totalMatches
        Before(a, b) == Cmp(a, b) < 0
    IN  LET xs == stats
            before == [i \in 1..Len(xs) |-> [j \in 1..Len(xs) |->
                          Before(xs[i], xs[j])]]
        IN  StableSort(xs, before)

\* sortByPerformance(stats)
sortByPerformance(stats) ==
    LET Cmp(a, b) ==
            IF a.totalMatches = 0 /\ b.totalMatches > 0 THEN 1
            ELSE IF a.totalMatches > 0 /\ b.totalMatches = 0 THEN -1
            ELSE IF b.totalMatches # a.totalMatches
                 THEN b.totalMatches - a.totalMatches
                 ELSE b.winRate - a.winRate
        Before(a, b) == Cmp(a, b) < 0
    IN  LET xs == stats
            before == [i \in 1..Len(xs) |-> [j \in 1..Len(xs) |->
                          Before(xs[i], xs[j])]]
        IN  StableSort(xs, before)

\* fetchAllHeroNames(allStats): every player gets an entry.
fetchAllHeroNames(stats) ==
    LET ids == {stats[i].playerId : i \in 1..Len(stats)}
        Of(id) == CHOOSE i \in 1..Len(stats) : stats[i].playerId = id
        HeroId(h) == h.heroId
    IN  [id \in ids |->
            IF Len(stats[Of(id)].heroes) > 0
            THEN <<getHeroNames([k \in 1..Len(stats[Of(id)].heroes) |->
                                    stats[Of(id)].heroes[k].heroId])>>
            ELSE << <<>> >>]

\* heroNamesMap.get(player.playerId) ?? []
NamesFor(map, playerId) ==
    IF playerId \in DOMAIN map /\ map[playerId] # <<>> THEN map[playerId][1] ELSE <<>>

\* ---- calculateNominations -------------------------------------------------
NEW_NOMINATION_MIN_MATCHES == 3
COMEBACK_MIN_LONG_MATCHES == 2
TIME_GUARD_MIN_MATCHES == 3
MAINER_MIN_HERO_GAMES == 3
MAX_NOMINATIONS_PER_PLAYER == 2

\* The titles in the order calculateNominations evaluates them:
\* Лузер, Фидер, Тащер, Саппорт, Бот, Задрот, Везунчик, Клоун, Марафонец,
\* Спринтер, Любитель лейта, Аккуратист, Дуэлянт, Киллер, Экспериментатор,
\* Мейнер, Камбэкер, Ночной страж, Утренний страж.
Titles == <<"Luzer", "Feeder", "Tascher", "Support", "Bot", "Zadrot", "Lucky",
            "Clown", "Marathoner", "Sprinter", "LateLover", "Careful",
            "Duelist", "Killer", "Experimenter", "Mainer", "Comebacker",
            "NightGuard", "MorningGuard">>

TitleIndex(t) == CHOOSE i \in 1..Len(Titles) : Titles[i] = t

\* Index of the first category inside `if (eligibleForNew.length > 0)`.
FirstNewIndex == 9

\* The ranking value of each category's sort, as a ratio.
WinRateOf(p)        == <<p.winRate, 1>>
DeathsPerGame(p)    == <<p.totalDeaths, p.totalMatches>>
KdaOf(p)            == <<IF p.avgKda = <<>> THEN 0 ELSE p.avgKda[1], 1>>
AssistRatio(p)      == <<p.totalAssists, p.totalKills>>
Participation(p)    == <<p.totalKills + p.totalAssists, p.totalMatches>>
MatchesOf(p)        == <<p.totalMatches, 1>>
TotalDuration(p)    == <<p.totalDurationSeconds, 1>>
AvgDuration(p)      == p.avgDurationSeconds
KillDeath(p)        == <<p.totalKills, IF p.totalDeaths > 1 THEN p.totalDeaths ELSE 1>>
KillsPerGame(p)     == <<p.totalKills, p.totalMatches>>
UniqueHeroes(p)     == <<Cardinality({p.heroes[i].heroId : i \in 1..Len(p.heroes)}), 1>>
LongWinRate(p)      == <<p.longWins, p.longMatches>>
NightOf(p)          == <<p.nightMatches, 1>>
MorningOf(p)        == <<p.morningMatches, 1>>

\* getValue applied to a player; the getValue argument is given by name.
ValueOf(getValue, p) ==
    CASE getValue = "WinRateOf"      -> WinRateOf(p)
      [] getValue = "DeathsPerGame"  -> DeathsPerGame(p)
      [] getValue = "KdaOf"          -> KdaOf(p)
      [] getValue = "AssistRatio"    -> AssistRatio(p)
      [] getValue = "Participation"  -> Participation(p)
      [] getValue = "MatchesOf"      -> MatchesOf(p)
      [] getValue = "TotalDuration"  -> TotalDuration(p)
      [] getValue = "AvgDuration"    -> AvgDuration(p)
      [] getValue = "KillDeath"      -> KillDeath(p)
      [] getValue = "KillsPerGame"   -> KillsPerGame(p)
      [] getValue = "UniqueHeroes"   -> UniqueHeroes(p)
      [] getValue = "NightOf"        -> NightOf(p)
      [] getValue = "MorningOf"      -> MorningOf(p)

\* sortWithTiebreaker(arr, getValue, ascending): the lists it may return.
\* A NaN value makes the comparator return NaN for every pair it is part of
\* (NaN !== 0 is true, so the name is never compared); sort reads that as 0.
\* Such a comparator is not a consistent ordering and the order of the
\* result is implementation-defined.
sortWithTiebreaker(arr, getValue, ascending) ==
    LET Before(a, b) ==
            LET c    == CmpRatio(ValueOf(getValue, a), ValueOf(getValue, b))
                diff == IF ascending THEN c ELSE 0 - c
            IN  IF diff # 0 THEN diff < 0
                            ELSE a.playerName < b.playerName
    IN  IF \E i \in 1..Len(arr) : IsNaN(ValueOf(getValue, arr[i]))
        THEN Orderings(arr)
        ELSE {StableSort(arr, [i \in 1..Len(arr) |-> [j \in 1..Len(arr) |->
                                  Before(arr[i], arr[j])]])}

\* The most played hero of a player: groupedHeroes[0].
MostPlayed(p, map) == groupHeroes(p.heroes, NamesFor(map, p.playerId))[1]

\* 1. Лузер
LuzerCandidates(players) ==
    LET Gate(p) == p.winRate <= 49
    IN  {SelectSeq(sorted, Gate) : sorted \in sortWithTiebreaker(players, "WinRateOf", TRUE)}

\* 2. Фидер
FeederCandidates(players) == sortWithTiebreaker(players, "DeathsPerGame", FALSE)

\* 3. Тащер
TascherCandidates(players) ==
    LET HasKda(p) == p.avgKda # <<>>
    IN  sortWithTiebreaker(SelectSeq(players, HasKda), "KdaOf", FALSE)

\* 4. Саппорт
SupportCandidates(players) ==
    LET HasKills(p) == p.totalKills > 0
    IN  sortWithTiebreaker(SelectSeq(players, HasKills), "AssistRatio", FALSE)

\* Mutant: exactly 10 kills+assists per game still qualifies.
BotGateInclusive(p) ==
    /\ p.totalMatches > 0
    /\ MathRoundDiv((p.totalKills + p.totalAssists) * 10, p.totalMatches) <= 100

\* Math.round(((kills + assists) / totalMatches) * 10) / 10 < 10; false for NaN.
BotGate(p) ==
    /\ p.totalMatches > 0
    /\ MathRoundDiv((p.totalKills + p.totalAssists) * 10, p.totalMatches) < 100

\* 5. Бот
BotCandidates(players) ==
    {SelectSeq(sorted, BotGate) : sorted \in sortWithTiebreaker(players, "Participation", TRUE)}

\* 6. Задрот
ZadrotCandidates(players) == sortWithTiebreaker(players, "MatchesOf", FALSE)

LuckyGate(p) == p.winRate >= 60 /\ p.avgKda # <<>> /\ p.avgKda[1] < 200

\* 7. Везунчик: win rate descending, then KDA ascending; no name tiebreak.
LuckyCandidates(players) ==
    LET Before(a, b) ==
            IF b.winRate # a.winRate THEN b.winRate - a.winRate < 0
            ELSE KdaOf(a)[1] - KdaOf(b)[1] < 0
    IN  LET xs == SelectSeq(players, LuckyGate)
            before == [i \in 1..Len(xs) |-> [j \in 1..Len(xs) |->
                          Before(xs[i], xs[j])]]
        IN  {StableSort(xs, before)}

\* Mutant: the win rate on the most played hero is not looked at.
ClownGateAnyWinRate(p, map) ==
    /\ Len(p.heroes) > 0
    /\ LET mostPlayed == MostPlayed(p, map)
           totalGames == mostPlayed.wins + mostPlayed.losses
       IN  totalGames * 10 >= 7 * p.totalMatches

\* heroRatio >= 0.7 && heroWinRate < 50 on the most played hero.
ClownGate(p, map) ==
    /\ Len(p.heroes) > 0
    /\ LET mostPlayed == MostPlayed(p, map)
           totalGames == mostPlayed.wins + mostPlayed.losses
       IN  /\ totalGames * 10 >= 7 * p.totalMatches
           /\ mostPlayed.wins * 100 < 50 * totalGames

\* 8. Клоун: candidates in the order of activePlayers.
ClownCandidates(players, map) ==
    LET Gate(p) == ClownGate(p, map)
    IN  {SelectSeq(players, Gate)}

\* Mutant: every active player is eligible for the later categories.
eligibleForNewNoMinimum(players) ==
    players

eligibleForNew(players) ==
    LET Gate(p) == p.totalMatches >= NEW_NOMINATION_MIN_MATCHES
    IN  SelectSeq(players, Gate)

MainerGate(p, map) ==
    /\ Len(p.heroes) > 0
    /\ LET mostPlayed == MostPlayed(p, map)
           totalGames == mostPlayed.wins + mostPlayed.losses
       IN  /\ ~(totalGames < MAINER_MIN_HERO_GAMES)
           /\ ~(mostPlayed.wins * 100 < 60 * totalGames)

MainerRatio(p, map) ==
    LET mostPlayed == MostPlayed(p, map)
    IN  <<mostPlayed.wins + mostPlayed.losses, p.totalMatches>>

\* 16. Мейнер
MainerCandidates(players, map) ==
    LET Gate(p) == MainerGate(p, map)
        Before(a, b) ==
            LET c == CmpRatio(MainerRatio(b, map), MainerRatio(a, map))
            IN  IF c # 0 THEN c < 0 ELSE a.playerName < b.playerName
    IN  LET xs == SelectSeq(eligibleForNew(players), Gate)
            before == [i \in 1..Len(xs) |-> [j \in 1..Len(xs) |->
                          Before(xs[i], xs[j])]]
        IN  {StableSort(xs, before)}

\* 17. Камбэкер
ComebackerCandidates(players) ==
    LET Gate(p) == p.longMatches >= COMEBACK_MIN_LONG_MATCHES
        Before(a, b) ==
            LET c == CmpRatio(LongWinRate(b), LongWinRate(a))
            IN  IF c # 0 THEN c < 0 ELSE a.playerName < b.playerName
    IN  LET xs == SelectSeq(eligibleForNew(players), Gate)
            before == [i \in 1..Len(xs) |-> [j \in 1..Len(xs) |->
                          Before(xs[i], xs[j])]]
        IN  {StableSort(xs, before)}

\* 18. Ночной страж
NightGuardCandidates(players) ==
    LET Gate(p) == p.nightMatches >= TIME_GUARD_MIN_MATCHES
    IN  sortWithTiebreaker(SelectSeq(eligibleForNew(players), Gate), "NightOf", FALSE)

\* 19. Утренний страж
MorningGuardCandidates(players) ==
    LET Gate(p) == p.morningMatches >= TIME_GUARD_MIN_MATCHES
    IN  sortWithTiebreaker(SelectSeq(eligibleForNew(players), Gate), "MorningOf", FALSE)

\* The candidate lists category t may hand to addNomination.
CategoryCandidates(t, players, map) ==
    CASE t = "Luzer"        -> LuzerCandidates(players)
      [] t = "Feeder"       -> FeederCandidates(players)
      [] t = "Tascher"      -> TascherCandidates(players)
      [] t = "Support"      -> SupportCandidates(players)
      [] t = "Bot"          -> BotCandidates(players)
      [] t = "Zadrot"       -> ZadrotCandidates(players)
      [] t = "Lucky"        -> LuckyCandidates(players)
      [] t = "Clown"        -> ClownCandidates(players, map)
      [] t = "Marathoner"   -> sortWithTiebreaker(eligibleForNew(players), "TotalDuration", FALSE)
      [] t = "Sprinter"     -> sortWithTiebreaker(eligibleForNew(players), "AvgDuration", TRUE)
      [] t = "LateLover"    -> sortWithTiebreaker(eligibleForNew(players), "AvgDuration", FALSE)
      [] t = "Careful"      -> sortWithTiebreaker(eligibleForNew(players), "DeathsPerGame", TRUE)
      [] t = "Duelist"      -> sortWithTiebreaker(eligibleForNew(players), "KillDeath", FALSE)
      [] t = "Killer"       -> sortWithTiebreaker(eligibleForNew(players), "KillsPerGame", FALSE)
      [] t = "Experimenter" -> sortWithTiebreaker(eligibleForNew(players), "UniqueHeroes", FALSE)
      [] t = "Mainer"       -> MainerCandidates(players, map)
      [] t = "Comebacker"   -> ComebackerCandidates(players)
      [] t = "NightGuard"   -> NightGuardCandidates(players)
      [] t = "MorningGuard" -> MorningGuardCandidates(players)

\* Evaluating category t calls groupHeroes for these players.
GroupedBy(t, players) ==
    CASE t = "Clown"  -> players
      [] t = "Mainer" -> eligibleForNew(players)
      [] OTHER        -> <<>>

CategoryThrows(t, players, map) ==
    \E i \in 1..Len(GroupedBy(t, players)) :
        LET p == GroupedBy(t, players)[i]
        IN  groupHeroesThrows(p.heroes, NamesFor(map, p.playerId))

\* heroName of the nomination: mostPlayed.name for Клоун and Мейнер.
HeroNameOf(t, p, map) ==
    IF t \in {"Clown", "Mainer"} THEN MostPlayed(p, map).name ELSE <<>>

\* Mutant: the cap is not looked at, the top candidate always wins.
BestAvailableIgnoringCap(candidates, counts) ==
    IF Len(candidates) = 0 THEN 0 ELSE 1

\* Mutant: the last candidate below the cap is taken instead of the first.
BestAvailableLast(candidates, counts) ==
    LET ok == {i \in 1..Len(candidates) :
                  counts[candidates[i].playerId] < MAX_NOMINATIONS_PER_PLAYER}
    IN  IF ok = {} THEN 0 ELSE KthSmallest(ok, Cardinality(ok))

\* Mutant: only the top candidate is looked at; the category is dropped
\* when that one is at the cap.
BestAvailableTopOnly(candidates, counts) ==
    IF Len(candidates) > 0
       /\ counts[candidates[1].playerId] < MAX_NOMINATIONS_PER_PLAYER
    THEN 1 ELSE 0

\* candidates.find(c => (playerNominationCount.get(c.player.playerId) ?? 0)
\*                      < MAX_NOMINATIONS_PER_PLAYER): its index, 0 if none.
BestAvailable(candidates, counts) ==
    LET ok == {i \in 1..Len(candidates) :
                  counts[candidates[i].playerId] < MAX_NOMINATIONS_PER_PLAYER}
    IN  IF ok = {} THEN 0 ELSE KthSmallest(ok, 1)

\* ------------------------------------------------------------------------
\* Inputs of the nomination runs: the week of Monday 2026-05-25, seen from
\* Sunday 2026-05-31 23:55 UTC+3.  Each player gets one of the match lists of
\* MatchLists, and calculateStats(.., "week") of it is the player's PlayerStats.
\* ------------------------------------------------------------------------
MaxPlayers == 3

\* Monday 2026-05-25 06:00 UTC+3 and instants relative to it.
NomWeek == [monday0600 |-> 1779678000]
NomClock     == NomWeek.monday0600 + 6 * 86400 + 17 * 3600 + 55 * 60
StartOld     == NomWeek.monday0600 - 3600       \* Mon 05:00, before the week opens
StartNight   == NomWeek.monday0600 + 20 * 3600  \* Tue 02:00
StartMorning == NomWeek.monday0600 + 27 * 3600  \* Tue 09:00
StartEvening == NomWeek.monday0600 + 38 * 3600  \* Tue 20:00

Match(hero, slot, radiantWin, k, d, a, dur, start) ==
    [hero_id |-> hero, player_slot |-> slot, radiant_win |-> radiantWin,
     kills |-> k, deaths |-> d, assists |-> a, duration |-> dur,
     start_time |-> start]

MatchLists ==
    << \* 1: nothing inside the week
       << Match(1, 0, TRUE, 9, 1, 9, 2000, StartOld) >>,
       \* 2: one win with poor KDA
       << Match(1, 0, TRUE, 1, 5, 2, 1800, StartEvening) >>,
       \* 3: one loss without kills
       << Match(1, 128, TRUE, 0, 8, 3, 2000, StartEvening) >>,
       \* 4: two heroes once each, no deaths, high participation
       << Match(1, 0, TRUE, 10, 0, 5, 2400, StartEvening),
          Match(2, 130, TRUE, 8, 0, 4, 2400, StartMorning) >>,
       \* 5: three night wins on one hero, two of them long
       << Match(1, 1, TRUE, 5, 2, 5, 2700, StartNight),
          Match(1, 129, FALSE, 5, 2, 5, 3000, StartNight),
          Match(1, 2, TRUE, 5, 2, 5, 1500, StartNight) >>,
       \* 6: three morning games on three heroes (one unknown), two long
       << Match(1, 0, TRUE, 3, 6, 10, 2800, StartMorning),
          Match(2, 0, FALSE, 3, 6, 10, 2699, StartMorning),
          Match(4, 0, FALSE, 3, 6, 10, 2900, StartMorning),
          Match(2, 0, TRUE, 20, 0, 20, 1000, StartOld) >>,
       \* 7: four games, three losses on one hero
       << Match(2, 128, TRUE, 2, 7, 1, 2100, StartEvening),
          Match(2, 128, TRUE, 2, 7, 1, 2100, StartNight),
          Match(1, 128, FALSE, 2, 7, 1, 2100, StartEvening),
          Match(2, 128, TRUE, 2, 7, 1, 2100, StartMorning) >>,
       \* 8: three games on one hero, two wins, poor KDA
       << Match(1, 0, TRUE, 1, 4, 2, 1900, StartEvening),
          Match(1, 0, TRUE, 1, 4, 2, 1900, StartNight),
          Match(1, 0, FALSE, 1, 4, 2, 1900, StartEvening) >>,
       \* 9: one win without kills, many assists, many deaths
       << Match(1, 0, TRUE, 0, 11, 12, 1800, StartEvening) >> >>

NameOrders == {"ascending", "descending"}

\* The display name (collation rank) of the i-th player of n.
NameOfPlayer(i, n, order) == IF order = "ascending" THEN i ELSE n + 1 - i

\* The PlayerStats[] of n players: player i has playerId i and the match
\* list number lists[i].
StatsInput(n, lists, order) ==
    [i \in 1..n |-> calculateStats(i, NameOfPlayer(i, n, order),
                                   MatchLists[lists[i]], "week", <<>>, <<>>,
                                   NomClock)]

\* No fetch of the OpenDota client is in progress.
IdleNet ==
    /\ clockMs = 0
    /\ lastRequestTime = 0
    /\ fetchers = <<>>
    /\ requests = <<>>
    /\ failures = 0

\* The LFG polling loop has not been started.
IdleLfg ==
    /\ lfgNow = 0
    /\ pollsRun = 0
    /\ isWarmupComplete = FALSE
    /\ wasPlayingDota = <<>>
    /\ lastNotificationTime = <<>>
    /\ polls = <<>>
    /\ lastSent = <<>>

\* No call of groupHeroes is in progress.
IdleGroup ==
    /\ gHeroes = <<>>
    /\ gHeroNames = <<>>
    /\ gResult = <<>>
    /\ pcG = "idle"

\* No call of calculateStats is in progress.
IdleStats ==
    /\ matches = <<>>
    /\ filteredMatches = <<>>
    /\ results = <<>>
    /\ pcS = "idle"

IdleTime ==
    /\ now = NomClock
    /\ ticks = 0
    /\ period = "week"
    /\ pcW = "done"
    /\ periodStart = <<getPeriodStartTimestamp("week", NomClock)>>
    /\ periodEnd = <<>>
    /\ startClock = NomClock
    /\ endClock = NomClock

\* ------------------------------------------------------------------------
\* formatStatsMessage and calculateNominations as steps
\* ------------------------------------------------------------------------
PlayerIdsOf(players) == {players[i].playerId : i \in 1..Len(players)}

\* The lines of the message before the nominations section: the header, a
\* card per active player, and after an empty line the line of the inactive
\* players if there are any.  A line is kept as its kind and its players.
MessageLines(active, inactivePlayers) ==
    LET header == <<[kind |-> "header", players |-> <<>>]>>
        cards  == [i \in 1..Len(active) |->
                     [kind |-> "card", players |-> <<active[i].playerId>>]]
        names  == [i \in 1..Len(inactivePlayers) |-> inactivePlayers[i].playerId]
    IN  header \o cards \o
        (IF Len(inactivePlayers) > 0
         THEN <<[kind |-> "empty", players |-> <<>>],
                [kind |-> "inactive", players |-> names]>>
         ELSE <<>>)

\* formatStatsMessage up to the call of calculateNominations.
FormatStatsMessage ==
    /\ pc = "format"
    /\ LET sortedStats == sortByPerformance(allStats)
           Active(st)  == st.totalMatches > 0
           Inactive(st) == st.totalMatches = 0
       IN  /\ activePlayers' = SelectSeq(sortedStats, Active)
           /\ lines' = MessageLines(SelectSeq(sortedStats, Active),
                                    SelectSeq(sortedStats, Inactive))
    /\ heroNamesMap' = fetchAllHeroNames(allStats)
    /\ pc' = "entry"
    /\ UNCHANGED <<allStats, nominations, playerNominationCount, evalLog, outcome,
                   nomResults>>
    /\ UNCHANGED timeVars
    /\ UNCHANGED statVars
    /\ UNCHANGED groupVars
    /\ UNCHANGED netVars
    /\ UNCHANGED lfgVars

\* Mutant: a single player is enough to go on.
TooFewPlayersOffByOne(players) == Len(players) < 1

\* if (activePlayers.length < 2) return [];
TooFewPlayers(players) == Len(players) < 2

\* Mutant: the count map outlives the call; only its first use creates it.
EnterKeepingCounts ==
    /\ pc = "entry"
    /\ nominations' = <<>>
    /\ evalLog' = <<>>
    /\ playerNominationCount' =
          IF playerNominationCount = <<>>
          THEN [id \in PlayerIdsOf(activePlayers) |-> 0]
          ELSE playerNominationCount
    /\ IF TooFewPlayers(activePlayers)
       THEN pc' = "done" /\ outcome' = "returned"
       ELSE pc' = Titles[1] /\ outcome' = "running"
    /\ UNCHANGED <<allStats, activePlayers, heroNamesMap, nomResults, lines>>
    /\ UNCHANGED timeVars
    /\ UNCHANGED statVars
    /\ UNCHANGED groupVars
    /\ UNCHANGED netVars
    /\ UNCHANGED lfgVars

\* Entry of calculateNominations: the early return, otherwise the empty
\* result list and the empty count map are set up.
EnterCalculateNominations ==
    /\ pc = "entry"
    /\ nominations' = <<>>
    /\ evalLog' = <<>>
    /\ playerNominationCount' = [id \in PlayerIdsOf(activePlayers) |-> 0]
    /\ IF TooFewPlayers(activePlayers)
       THEN pc' = "done" /\ outcome' = "returned"
       ELSE pc' = Titles[1] /\ outcome' = "running"
    /\ UNCHANGED <<allStats, activePlayers, heroNamesMap, nomResults, lines>>
    /\ UNCHANGED timeVars
    /\ UNCHANGED statVars
    /\ UNCHANGED groupVars
    /\ UNCHANGED netVars
    /\ UNCHANGED lfgVars

\* Where control goes after category number i.
PcAfter(i) ==
    IF i = Len(Titles) THEN "done"
    ELSE IF i + 1 = FirstNewIndex /\ eligibleForNew(activePlayers) = <<>> THEN "done"
    ELSE Titles[i + 1]

\* addNomination(title, emoji, candidates)
addNomination(title, candidates) ==
    LET best == BestAvailable(candidates, playerNominationCount)
        ids  == [i \in 1..Len(candidates) |-> candidates[i].playerId]
    IN  IF best = 0
        THEN /\ nominations' = nominations
             /\ playerNominationCount' = playerNominationCount
             /\ evalLog' = Append(evalLog, [title |-> title, cands |-> ids,
                                            before |-> playerNominationCount,
                                            winner |-> <<>>])
        ELSE /\ nominations' = Append(nominations,
                    [title    |-> title,
                     player   |-> candidates[best].playerId,
                     heroName |-> HeroNameOf(title, candidates[best], heroNamesMap)])
             /\ playerNominationCount' =
                    [playerNominationCount EXCEPT ![candidates[best].playerId] = @ + 1]
             /\ evalLog' = Append(evalLog, [title |-> title, cands |-> ids,
                                            before |-> playerNominationCount,
                                            winner |-> <<candidates[best].playerId>>])

\* One category of calculateNominations: its candidate list is built and
\* handed to addNomination; after the last one the list is returned.
EvaluateCategory ==
    /\ pc \notin {"idle", "format", "entry", "done"}
    /\ IF CategoryThrows(pc, activePlayers, heroNamesMap)
       THEN /\ outcome' = "threw"
            /\ pc' = "done"
            /\ nominations' = <<>>  \* the exception leaves the caller without a list
            /\ UNCHANGED <<playerNominationCount, evalLog>>
       ELSE /\ \E candidates \in CategoryCandidates(pc, activePlayers, heroNamesMap) :
                  addNomination(pc, candidates)
            /\ pc' = PcAfter(TitleIndex(pc))
            /\ outcome' = IF pc' = "done" THEN "returned" ELSE "running"
    /\ UNCHANGED <<allStats, activePlayers, heroNamesMap, nomResults, lines>>
    /\ UNCHANGED timeVars
    /\ UNCHANGED statVars
    /\ UNCHANGED groupVars
    /\ UNCHANGED netVars
    /\ UNCHANGED lfgVars

\* Specification of a stats message: index.ts computes every player's
\* PlayerStats and hands them to formatStatsMessage.
InitNom ==
    /\ IdleTime
    /\ IdleStats
    /\ IdleGroup
    /\ \E lists \in [1..MaxPlayers -> 1..Len(MatchLists)], order \in NameOrders :
          allStats = StatsInput(MaxPlayers, lists, order)
    /\ activePlayers = <<>>
    /\ heroNamesMap = <<>>
    /\ pc = "format"
    /\ nominations = <<>>
    /\ playerNominationCount = <<>>
    /\ evalLog = <<>>
    /\ outcome = "running"
    /\ nomResults = <<>>
    /\ lines = <<>>
    /\ IdleNet
    /\ IdleLfg

NextNom == FormatStatsMessage \/ EnterCalculateNominations \/ EvaluateCategory

Spec == InitNom /\ [][NextNom]_vars

\* Specification of direct calls of calculateNominations: the argument is any
\* list of PlayerStats in any order, players without matches included, and
\* heroNamesMap has an entry for every player or for none.
InitCall ==
    /\ IdleTime
    /\ IdleStats
    /\ IdleGroup
    /\ allStats = <<>>
    /\ \E lists \in [1..MaxPlayers -> 1..Len(MatchLists)], order \in NameOrders :
          /\ activePlayers = StatsInput(MaxPlayers, lists, order)
          /\ heroNamesMap \in {fetchAllHeroNames(StatsInput(MaxPlayers, lists, order)),
                               <<>>}
    /\ pc = "entry"
    /\ nominations = <<>>
    /\ playerNominationCount = <<>>
    /\ evalLog = <<>>
    /\ outcome = "running"
    /\ nomResults = <<>>
    /\ lines = <<>>
    /\ IdleNet
    /\ IdleLfg

NextCall == EnterCalculateNominations \/ EvaluateCategory

SpecCall == InitCall /\ [][NextCall]_vars

\* ------------------------------------------------------------------------
\* Claims about the nominations
\* ------------------------------------------------------------------------
Logged == 1..Len(evalLog)

\* Number of nominations player id has won in the result list.
AwardsOf(id) == Cardinality({i \in 1..Len(nominations) : nominations[i].player = id})

\* Awards player id had won before the k-th evaluated category.
AwardsBefore(id, k) ==
    Cardinality({j \in 1..(k - 1) : evalLog[j].winner = <<id>>})

PositionIn(cands, id) == CHOOSE i \in 1..Len(cands) : cands[i] = id

\* The result list holds exactly the winners of the evaluated categories, in
\* the order of evaluation.
WinnersOfLog ==
    LET won == {k \in Logged : evalLog[k].winner # <<>>}
    IN  [i \in 1..Cardinality(won) |->
            [title  |-> evalLog[KthSmallest(won, i)].title,
             player |-> evalLog[KthSmallest(won, i)].winner[1]]]

ResultMatchesLog ==
    /\ Len(nominations) = Len(WinnersOfLog)
    /\ \A i \in 1..Len(nominations) :
          /\ nominations[i].title = WinnersOfLog[i].title
          /\ nominations[i].player = WinnersOfLog[i].player

FirstBelowCapWins ==
    /\ ResultMatchesLog
    /\ \A k \in Logged :
          /\ evalLog[k].title = Titles[k]
          /\ evalLog[k].winner # <<>> =>
                LET c == evalLog[k].cands
                    w == PositionIn(c, evalLog[k].winner[1])
                IN  /\ AwardsBefore(c[w], k) < 2
                    /\ \A j \in 1..(w - 1) : AwardsBefore(c[j], k) = 2

\* The evaluated categories whose top-ranked candidate is player id.
TopRankedIn(id) ==
    {k \in Logged : Len(evalLog[k].cands) > 0 /\ evalLog[k].cands[1] = id}

WonIn(id) == {k \in Logged : evalLog[k].winner = <<id>>}

\* A player who is top-ranked in at least 4 categories wins exactly the
\* first 2 of those.
TopOfFourWinsFirstTwo ==
    (pc = "done" /\ outcome = "returned") =>
      \A id \in PlayerIdsOf(activePlayers) :
          Cardinality(TopRankedIn(id)) >= 4 =>
              WonIn(id) \cap TopRankedIn(id) =
                  {KthSmallest(TopRankedIn(id), 1), KthSmallest(TopRankedIn(id), 2)}

\* A player who is top-ranked in at least 4 categories ends with exactly 2
\* awards.
TopOfFourWinsTwo ==
    (pc = "done" /\ outcome = "returned") =>
      \A id \in PlayerIdsOf(activePlayers) :
          Cardinality(TopRankedIn(id)) >= 4 => Cardinality(WonIn(id)) = 2

C3_EmptyBelowTwoPlayers ==
    LET active == {i \in 1..Len(allStats) : allStats[i].totalMatches > 0}
    IN  (pc = "done" /\ Cardinality(active) < 2) =>
            /\ outcome = "returned"
            /\ nominations = <<>>
            /\ evalLog = <<>>

\* A finished call with exactly one active player.
C3_Witness ==
    /\ pc = "done"
    /\ Len(activePlayers) = 1
    /\ Cardinality({i \in 1..Len(allStats) : allStats[i].totalMatches > 0}) = 1

StatsOfId(id) ==
    activePlayers[CHOOSE i \in 1..Len(activePlayers) : activePlayers[i].playerId = id]

\* The value category t ranks player p by.
RankValue(t, p) ==
    CASE t = "Luzer"        -> WinRateOf(p)
      [] t = "Feeder"       -> DeathsPerGame(p)
      [] t = "Tascher"      -> KdaOf(p)
      [] t = "Support"      -> AssistRatio(p)
      [] t = "Bot"          -> Participation(p)
      [] t = "Zadrot"       -> MatchesOf(p)
      [] t = "Marathoner"   -> TotalDuration(p)
      [] t = "Sprinter"     -> AvgDuration(p)
      [] t = "LateLover"    -> AvgDuration(p)
      [] t = "Careful"      -> DeathsPerGame(p)
      [] t = "Duelist"      -> KillDeath(p)
      [] t = "Killer"       -> KillsPerGame(p)
      [] t = "Experimenter" -> UniqueHeroes(p)
      [] t = "Mainer"       -> MainerRatio(p, heroNamesMap)
      [] t = "Comebacker"   -> LongWinRate(p)
      [] t = "NightGuard"   -> NightOf(p)
      [] t = "MorningGuard" -> MorningOf(p)

\* Two candidates of category t have equal ranking values.  Везунчик ranks
\* by win rate and then KDA; Клоун ranks by nothing and is left out.
SameRankValue(t, a, b) ==
    CASE t = "Lucky" -> a.winRate = b.winRate /\ a.avgKda = b.avgKda
      [] t = "Clown" -> FALSE
      [] OTHER       -> CmpRatio(RankValue(t, a), RankValue(t, b)) = 0

\* In every category, of two candidates with equal ranking values the one
\* with the alphabetically smaller display name is ranked first.
C4_RankedByName ==
    \A k \in Logged :
        LET c == evalLog[k].cands
        IN  \A i, j \in 1..Len(c) :
                (i < j /\ SameRankValue(evalLog[k].title, StatsOfId(c[i]), StatsOfId(c[j])))
                    => StatsOfId(c[i]).playerName < StatsOfId(c[j]).playerName

\* A category is never won by a candidate while another candidate of equal
\* ranking value and smaller display name is below the cap.
C4_WinnerIsSmallestName ==
    \A k \in Logged :
        evalLog[k].winner # <<>> =>
            LET c == evalLog[k].cands
                w == evalLog[k].winner[1]
            IN  \A j \in 1..Len(c) :
                    (/\ c[j] # w
                     /\ SameRankValue(evalLog[k].title, StatsOfId(w), StatsOfId(c[j]))
                     /\ AwardsBefore(c[j], k) < 2)
                        => StatsOfId(w).playerName < StatsOfId(c[j]).playerName

\* C4 as stated: in every category candidates of equal ranking value are
\* ranked by display name, so that the one with the smaller name wins when
\* both are below the cap.
C4_AsStated == C4_RankedByName /\ C4_WinnerIsSmallestName

\* C5 as stated: an input containing a player with totalMatches = 0 ends in
\* an error and yields no nominations.
C5_AsStated ==
    (pc = "done" /\ \E i \in 1..Len(activePlayers) : activePlayers[i].totalMatches = 0)
        => (outcome = "threw" /\ nominations = <<>>)

SpanDays == 5
MaxTicks == 2

BaseDays == {1703883600, 1708981200, 1766869200, 1772139600, 1780088400}
DayOffsets == {0, 5 * 3600, 6 * 3600 - 1, 6 * 3600, 6 * 3600 + 1, 12 * 3600,
               24 * 3600 - 1}
NowSet == {b + k * 86400 + o : b \in BaseDays, k \in 0..(SpanDays - 1),
                                       o \in DayOffsets}

\* ------------------------------------------------------------------------
\* filterMatchesByPeriod (stats.ts 165-177) computes the two bounds with two
\* separate calls, each of which reads the clock.
\* ------------------------------------------------------------------------
IdleNom ==
    /\ allStats = <<>>
    /\ activePlayers = <<>>
    /\ heroNamesMap = <<>>
    /\ pc = "idle"
    /\ nominations = <<>>
    /\ playerNominationCount = <<>>
    /\ evalLog = <<>>
    /\ outcome = "running"
    /\ nomResults = <<>>
    /\ lines = <<>>

InitTime ==
    /\ now \in NowSet
    /\ ticks = 0
    /\ period \in StatsPeriod
    /\ pcW = "start"
    /\ periodStart = <<>>
    /\ periodEnd = <<>>
    /\ startClock = 0
    /\ endClock = 0
    /\ IdleNom
    /\ IdleStats
    /\ IdleGroup
    /\ IdleNet
    /\ IdleLfg

\* const periodStart = getPeriodStartTimestamp(period);
ReadPeriodStart ==
    /\ pcW = "start"
    /\ periodStart' = <<getPeriodStartTimestamp(period, now)>>
    /\ startClock' = now
    /\ pcW' = "end"
    /\ UNCHANGED <<now, ticks, period, periodEnd, endClock>>
    /\ UNCHANGED nomVars
    /\ UNCHANGED statVars
    /\ UNCHANGED groupVars
    /\ UNCHANGED netVars
    /\ UNCHANGED lfgVars

\* const periodEnd = getPeriodEndTimestamp(period);
ReadPeriodEnd ==
    /\ pcW = "end"
    /\ periodEnd' = getPeriodEndTimestamp(period, now)
    /\ endClock' = now
    /\ pcW' = "done"
    /\ UNCHANGED <<now, ticks, period, periodStart, startClock>>
    /\ UNCHANGED nomVars
    /\ UNCHANGED statVars
    /\ UNCHANGED groupVars
    /\ UNCHANGED netVars
    /\ UNCHANGED lfgVars

\* The wall clock advances by one second.
Tick ==
    /\ ticks < MaxTicks
    /\ pcW # "done"
    /\ now' = now + 1
    /\ ticks' = ticks + 1
    /\ UNCHANGED <<pcW, period, periodStart, periodEnd, startClock, endClock>>
    /\ UNCHANGED nomVars
    /\ UNCHANGED statVars
    /\ UNCHANGED groupVars
    /\ UNCHANGED netVars
    /\ UNCHANGED lfgVars

NextTime == ReadPeriodStart \/ ReadPeriodEnd \/ Tick

SpecTime == InitTime /\ [][NextTime]_vars

\* ------------------------------------------------------------------------
\* Calendar facts used to state the window claims, written without the Date
\* primitives above where possible.
\* ------------------------------------------------------------------------
IsLeapYear(y) == (y % 4 = 0 /\ y % 100 # 0) \/ y % 400 = 0

\* Days of month m (0-based) of year y.
DaysInMonth(y, m) ==
    IF m = 1 THEN (IF IsLeapYear(y) THEN 29 ELSE 28)
    ELSE IF m \in {3, 5, 8, 10} THEN 30 ELSE 31

\* Seconds since 00:00 of the UTC+3 day that instant t lies in.
MskSecondOfDay(t) == (t + 3 * 3600) % 86400

At0600Msk(t) == MskSecondOfDay(t) = 6 * 3600

\* 1970-01-01 was a Thursday: day number d is a Monday iff d % 7 = 4.
IsMondayMsk(t) == ((t + 3 * 3600) \div 86400) % 7 = 4

MskDate(t) == UTCFields(t + 3 * 3600)

PrevMonthOf(f) ==
    IF f.month = 0 THEN [year |-> f.year - 1, month |-> 11]
                   ELSE [year |-> f.year, month |-> f.month - 1]

StartComputed == pcW # "start"
TheStart == periodStart[1]

\* C8: when the clock read is exactly 06:00:00 UTC+3, the start of today is
\* that instant, and so is the start of week on a Monday and of month on a
\* 1st; when the clock read is one second before such an instant, the start is
\* the 06:00 start of the previous civil day, week or month.
C8_BoundaryInstant ==
    StartComputed =>
      LET c == startClock
          n == c + 1
      IN  /\ (period = "today" /\ At0600Msk(c)) => TheStart = c
          /\ (period = "today" /\ At0600Msk(n)) => TheStart = n - 86400
          /\ (period = "week" /\ At0600Msk(c) /\ IsMondayMsk(c)) => TheStart = c
          /\ (period = "week" /\ At0600Msk(n) /\ IsMondayMsk(n))
                => TheStart = n - 7 * 86400
          /\ (period = "month" /\ At0600Msk(c) /\ MskDate(c).date = 1)
                => TheStart = c
          /\ (period = "month" /\ At0600Msk(n) /\ MskDate(n).date = 1)
                => LET pm == PrevMonthOf(MskDate(n))
                   IN  TheStart = n - DaysInMonth(pm.year, pm.month) * 86400

\* A month start was computed one second before 06:00 on a 1st.
C8_Witness ==
    /\ StartComputed
    /\ period = "month"
    /\ At0600Msk(startClock + 1)
    /\ MskDate(startClock + 1).date = 1

\* C9: for period yesterday, when both bounds are computed from the same
\* clock value, the exclusive end is the start of today for that value, the
\* start is exactly 86400 seconds before the end, and the end is the latest
\* 06:00 UTC+3 that is not after now.
C9_YesterdayAdjacentToToday ==
    (pcW = "done" /\ period = "yesterday" /\ startClock = endClock) =>
      /\ Len(periodEnd) = 1
      /\ periodEnd[1] = getPeriodStartTimestamp("today", startClock)
      /\ TheStart = periodEnd[1] - 86400
      /\ At0600Msk(periodEnd[1])
      /\ periodEnd[1] <= startClock
      /\ startClock < periodEnd[1] + 86400

\* A yesterday window computed before 06:00 (the two-days-back branch).
C9_Witness ==
    /\ pcW = "done"
    /\ period = "yesterday"
    /\ startClock = endClock
    /\ MskSecondOfDay(startClock) < 6 * 3600

\* C10: the month window starts at 06:00 UTC+3 on the 1st of the clock's
\* calendar month, or, on the 1st before 06:00, on the 1st of the previous
\* calendar month (December of the previous year in January); it is the
\* latest such instant not after now.  2026-01-01T05:00 gives 2025-12-01T06:00.
C10_MonthStart ==
    (StartComputed /\ period = "month") =>
      LET c     == startClock
          f     == MskDate(c)
          early == f.date = 1 /\ MskSecondOfDay(c) < 6 * 3600
          want  == IF early THEN PrevMonthOf(f)
                            ELSE [year |-> f.year, month |-> f.month]
          s     == MskDate(TheStart)
      IN  /\ At0600Msk(TheStart)
          /\ s.date = 1
          /\ s.month = want.month
          /\ s.year = want.year
          /\ TheStart <= c
          /\ c < TheStart + DaysInMonth(s.year, s.month) * 86400
          /\ (c = 1767232800) => TheStart = 1764558000

\* The month start was computed at 2026-01-01T05:00 UTC+3.
C10_Witness ==
    /\ StartComputed
    /\ period = "month"
    /\ startClock = 1767232800

\* ------------------------------------------------------------------------
\* calculateStats as steps: the two clock reads of filterMatchesByPeriod
\* (ReadPeriodStart, ReadPeriodEnd), the filter, the aggregation, and a
\* further call with the same arguments.  The clock may advance between any
\* two steps.
\* ------------------------------------------------------------------------
MaxMatches == 2
MaxCalls == 2

\* Tuesday 2026-05-26 06:00 UTC+3.
Tue0600 == NomWeek.monday0600 + 86400

\* The matches the argument lists are built from:
\*  1 win on radiant, 10/1/0, exactly 45 min, starts Tue 06:00:00
\*  2 loss on dire, 2/10/0, one second short of 45 min, starts Tue 05:59:59
\*  3 win on dire, 0/0/0, 50 min, starts Tue 00:00
\*  4 loss on radiant, 3/0/4, 30 min, starts Wed 06:00:00
\*  5 win on radiant, 1/3/1, starts Wed 05:59:59
\*  6 loss on dire, 0/8/1, starts Tue 11:59:59
\*  7 win on radiant, 5/5/5, starts Mon 05:00 (before the week opens)
\*  8 loss on radiant, 4/2/6, starts Tue 12:00
MatchPool ==
    << Match(1, 0,   TRUE,  10, 1,  0, 2700, Tue0600),
       Match(2, 128, TRUE,  2,  10, 0, 2699, Tue0600 - 1),
       Match(1, 130, FALSE, 0,  0,  0, 3000, Tue0600 - 6 * 3600),
       Match(3, 4,   FALSE, 3,  0,  4, 1800, Tue0600 + 86400),
       Match(2, 1,   TRUE,  1,  3,  1, 2800, Tue0600 + 86400 - 1),
       Match(3, 129, TRUE,  0,  8,  1, 2000, Tue0600 + 6 * 3600 - 1),
       Match(1, 0,   TRUE,  5,  5,  5, 2700, StartOld),
       Match(2, 0,   FALSE, 4,  2,  6, 2701, Tue0600 + 6 * 3600) >>

\* One win in eight matches (12.5 %), one kill or assist on eight deaths.
EightMatches ==
    [i \in 1..8 |-> IF i = 3 THEN Match(1, 0, TRUE, 0, 1, 1, 2000, StartEvening)
                             ELSE Match(2, 0, FALSE, 0, 1, 0, 2000, StartEvening)]

\* 201 matches of one evening with a single win, and with a single loss.
ManyMatches(oneWin) ==
    [i \in 1..201 |-> Match(1, 0, (i = 1) = oneWin, 1, 1, 1, 1500, StartEvening)]

\* The argument lists: every list of up to MaxMatches pool matches,
\* EightMatches and the two lists of 201 matches.
StatsMatchLists ==
    {EightMatches, ManyMatches(TRUE), ManyMatches(FALSE)} \cup
    UNION {{[i \in 1..n |-> MatchPool[f[i]]] : f \in [1..n -> 1..Len(MatchPool)]} :
              n \in 0..MaxMatches}

\* Clock values at the start of the first call: Tue 05:59:59, Tue 12:00,
\* Wed 06:00:00, Wed 12:00, Sun 23:55, and 07:00 on Monday 2026-06-01.
StatsNowSet ==
    {Tue0600 - 1, Tue0600 + 6 * 3600, Tue0600 + 86400, Tue0600 + 30 * 3600,
     NomClock, NomWeek.monday0600 + 7 * 86400 + 3600}

\* The scalar arguments of the calls.
StatsArgs == [playerId |-> 1, playerName |-> 1, avgApm |-> <<150>>, rank |-> <<>>]

InitStats ==
    /\ now \in StatsNowSet
    /\ ticks = 0
    /\ period \in StatsPeriod
    /\ pcW = "start"
    /\ periodStart = <<>>
    /\ periodEnd = <<>>
    /\ startClock = 0
    /\ endClock = 0
    /\ IdleNom
    /\ matches \in StatsMatchLists
    /\ filteredMatches = <<>>
    /\ results = <<>>
    /\ pcS = "called"
    /\ IdleGroup
    /\ IdleNet
    /\ IdleLfg

\* return matches.filter(...) in filterMatchesByPeriod.
FilterMatches ==
    /\ pcS = "called"
    /\ pcW = "done"
    /\ filteredMatches' = FilterByWindow(matches, periodStart[1], periodEnd)
    /\ pcS' = "aggregate"
    /\ UNCHANGED <<matches, results>>
    /\ UNCHANGED timeVars
    /\ UNCHANGED nomVars
    /\ UNCHANGED groupVars
    /\ UNCHANGED netVars
    /\ UNCHANGED lfgVars

\* The rest of calculateStats, up to its return.
ReturnStats ==
    /\ pcS = "aggregate"
    /\ results' = Append(results,
                         AggregateStats(StatsArgs.playerId, StatsArgs.playerName,
                                        filteredMatches, StatsArgs.avgApm,
                                        StatsArgs.rank))
    /\ pcS' = "returned"
    /\ UNCHANGED <<matches, filteredMatches>>
    /\ UNCHANGED timeVars
    /\ UNCHANGED nomVars
    /\ UNCHANGED groupVars
    /\ UNCHANGED netVars
    /\ UNCHANGED lfgVars

\* calculateStats is called again with the same arguments.
CallAgain ==
    /\ pcS = "returned"
    /\ Len(results) < MaxCalls
    /\ pcS' = "called"
    /\ pcW' = "start"
    /\ periodStart' = <<>>
    /\ periodEnd' = <<>>
    /\ filteredMatches' = <<>>
    /\ UNCHANGED <<matches, results, now, ticks, period, startClock, endClock>>
    /\ UNCHANGED nomVars
    /\ UNCHANGED groupVars
    /\ UNCHANGED netVars
    /\ UNCHANGED lfgVars

NextStats ==
    \/ ReadPeriodStart \/ ReadPeriodEnd \/ Tick
    \/ FilterMatches \/ ReturnStats \/ CallAgain

SpecStats == InitStats /\ [][NextStats]_vars

\* C11: the week window starts at 06:00 UTC+3 on a Monday with
\* start <= now < start + 7 days; on a Monday before 06:00 it is the 06:00 of
\* the previous Monday, also when that Monday lies in the previous month or
\* year.
C11_WeekStart ==
    (StartComputed /\ period = "week") =>
      LET c == startClock
      IN  /\ At0600Msk(TheStart)
          /\ IsMondayMsk(TheStart)
          /\ TheStart <= c
          /\ c < TheStart + 7 * 86400
          /\ (IsMondayMsk(c) /\ MskSecondOfDay(c) < 6 * 3600)
                => TheStart = c - MskSecondOfDay(c) + 6 * 3600 - 7 * 86400

\* The week start was computed on Monday 2024-01-01 before 06:00: the
\* previous Monday is 2023-12-25.
C11_Witness ==
    /\ StartComputed
    /\ period = "week"
    /\ IsMondayMsk(startClock)
    /\ MskSecondOfDay(startClock) < 6 * 3600
    /\ MskDate(startClock).year = 2024
    /\ MskDate(TheStart).year = 2023

\* ------------------------------------------------------------------------
\* Properties of calculateStats, stated on the argument list and the bounds
\* the call computed.
\* ------------------------------------------------------------------------
Filtered == pcS \in {"aggregate", "returned"}
Returned == pcS = "returned"
LastResult == results[Len(results)]

\* The elements of s at the indices in I, in increasing index order.
SubSeqAt(s, I) ==
    LET In(i) == i \in I
        idx   == SelectSeq([i \in 1..Len(s) |-> i], In)
    IN  [k \in 1..Len(idx) |-> s[idx[k]]]

\* Indices of the argument matches inside the computed window.
InWindow ==
    {i \in 1..Len(matches) :
        /\ matches[i].start_time >= periodStart[1]
        /\ (periodEnd = <<>> \/ matches[i].start_time < periodEnd[1])}

\* C12: filterMatchesByPeriod keeps exactly the matches with
\* start_time >= start and (end is null or start_time < end), in their input
\* order; the end is non-null exactly for period yesterday, so the other
\* periods keep every match at or after the start.
C12_FilterKeepsWindow ==
    Filtered =>
      /\ filteredMatches = SubSeqAt(matches, InWindow)
      /\ (periodEnd # <<>>) <=> (period = "yesterday")
      /\ (period # "yesterday") =>
            InWindow = {i \in 1..Len(matches) :
                           matches[i].start_time >= periodStart[1]}

\* A yesterday window over a match starting exactly at the window end
\* (dropped) followed by one starting exactly at the window start (kept).
C12_Witness ==
    /\ Filtered
    /\ period = "yesterday"
    /\ Len(matches) = 2
    /\ matches[1].start_time = periodEnd[1]
    /\ matches[2].start_time = periodStart[1]
    /\ filteredMatches = <<matches[2]>>

\* The in-window matches of the argument, in input order.
InWindowMatches == SubSeqAt(matches, InWindow)

\* C13: the returned PlayerStats has wins + losses = totalMatches = number
\* of in-window matches = length of heroes; a match is a win iff
\* (player_slot < 128) = radiant_win; heroes[i] carries the hero and that
\* value of the i-th in-window match; the totals are sums over the in-window
\* matches only.
C13_CountsMatchWindow ==
    Returned =>
      LET r   == LastResult
          inw == InWindowMatches
          n   == Len(inw)
          Won(m) == (m.player_slot < 128) = m.radiant_win
      IN  /\ r.totalMatches = Cardinality(InWindow)
          /\ r.wins = Cardinality({k \in 1..n : Won(inw[k])})
          /\ r.losses = Cardinality({k \in 1..n : ~Won(inw[k])})
          /\ r.wins + r.losses = r.totalMatches
          /\ Len(r.heroes) = r.totalMatches
          /\ \A k \in 1..n : /\ r.heroes[k].isWin = Won(inw[k])
                             /\ r.heroes[k].heroId = inw[k].hero_id
          /\ r.totalKills = SumOver([k \in 1..n |-> inw[k].kills])
          /\ r.totalDeaths = SumOver([k \in 1..n |-> inw[k].deaths])
          /\ r.totalAssists = SumOver([k \in 1..n |-> inw[k].assists])
          /\ r.totalDurationSeconds = SumOver([k \in 1..n |-> inw[k].duration])

\* A call returned for two matches, the first outside the window and the
\* second inside it and won on the dire side.
C13_Witness ==
    /\ Returned
    /\ Len(matches) = 2
    /\ InWindow = {2}
    /\ matches[2].player_slot >= 128
    /\ ~matches[2].radiant_win
    /\ matches[1].kills > 0
    /\ LastResult.wins = 1

\* winRate is 0 without matches and else the integer nearest to
\* 100 * wins / totalMatches, a half rounded up.
WinRateIsRounded ==
    LET r == LastResult
        t == r.totalMatches
    IN  /\ r.winRate \in 0..100
        /\ (t = 0) => r.winRate = 0
        /\ (t > 0) => /\ 2 * r.winRate * t <= 200 * r.wins + t
                      /\ 200 * r.wins + t < 2 * (r.winRate + 1) * t

C15_AvgKdaFromSums ==
    Returned =>
      LET r   == LastResult
          inw == InWindowMatches
          n   == Len(inw)
          K   == SumOver([k \in 1..n |-> inw[k].kills])
          A   == SumOver([k \in 1..n |-> inw[k].assists])
          D   == SumOver([k \in 1..n |-> inw[k].deaths])
      IN  /\ (n = 0) <=> (r.avgKda = <<>>)
          /\ (n > 0 /\ D = 0) => r.avgKda = <<(K + A) * 100>>
          /\ (n > 0 /\ D > 0) =>
                LET h == r.avgKda[1]
                IN  /\ 2 * h * D - 200 * (K + A) <= D
                    /\ 200 * (K + A) - 2 * h * D <= D

\* A call returned for the matches 10/1/0 and 2/10/0, both in the window:
\* avgKda is 1.09, where the mean of the two per-match values is 5.1.
C15_Witness ==
    /\ Returned
    /\ Len(matches) = 2
    /\ InWindow = {1, 2}
    /\ {matches[1].kills, matches[2].kills} = {10, 2}
    /\ {matches[1].deaths, matches[2].deaths} = {1, 10}
    /\ LastResult.avgKda = <<109>>

\* Hour of day of instant t at the fixed offset UTC+3.
MskHourOf(t) == ((t + 3 * 3600) % 86400) \div 3600

\* C16: of the in-window matches, longMatches counts those of at least 2700
\* seconds, longWins those of them that are wins, nightMatches those whose
\* start hour at UTC+3 is in [0,6) and morningMatches those whose start hour
\* is in [6,12); so longWins <= longMatches <= totalMatches and
\* nightMatches + morningMatches <= totalMatches.
C16_Buckets ==
    Returned =>
      LET r   == LastResult
          inw == InWindowMatches
          N   == 1..Len(inw)
          Won(m) == (m.player_slot < 128) = m.radiant_win
      IN  /\ r.longMatches = Cardinality({k \in N : inw[k].duration >= 2700})
          /\ r.longWins = Cardinality({k \in N : inw[k].duration >= 2700
                                                   /\ Won(inw[k])})
          /\ r.nightMatches =
                Cardinality({k \in N : MskHourOf(inw[k].start_time) \in 0..5})
          /\ r.morningMatches =
                Cardinality({k \in N : MskHourOf(inw[k].start_time) \in 6..11})
          /\ r.longWins <= r.longMatches
          /\ r.longMatches <= r.totalMatches
          /\ r.nightMatches + r.morningMatches <= r.totalMatches

\* A call returned for two in-window matches: one of exactly 2700 seconds
\* starting at 06:00:00, one longer starting at 00:00.
C16_Witness ==
    /\ Returned
    /\ Len(matches) = 2
    /\ InWindow = {1, 2}
    /\ matches[1].duration = 2700
    /\ MskHourOf(matches[1].start_time) = 6
    /\ MskHourOf(matches[2].start_time) = 0
    /\ LastResult.longMatches = 2
    /\ LastResult.nightMatches = 1
    /\ LastResult.morningMatches = 1

\* C17 as stated: two calls of calculateStats with the same playerId, name,
\* match list, period, avgApm and rank return identical PlayerStats.
C17_AsStated ==
    (Len(results) = 2) => results[1] = results[2]

\* ------------------------------------------------------------------------
\* One call of groupHeroes.  The heroes argument is any list of up to
\* MaxHeroes entries over the hero ids 1, 2 (known) and 4, 5 (unknown, both
\* named "Unknown"); heroNames is what getHeroNames gives for it, or lacks
\* every name.
\* ------------------------------------------------------------------------
MaxHeroes == 3

GroupHeroIds == {1, 2, 4, 5}

HeroLists ==
    UNION {[1..n -> [heroId : GroupHeroIds, isWin : BOOLEAN]] : n \in 0..MaxHeroes}

InitGroup ==
    /\ IdleTime
    /\ IdleNom
    /\ IdleStats
    /\ gHeroes \in HeroLists
    /\ gHeroNames \in {getHeroNames([i \in 1..Len(gHeroes) |-> gHeroes[i].heroId]),
                       <<>>}
    /\ gResult = <<>>
    /\ pcG = "call"
    /\ IdleNet
    /\ IdleLfg

GroupHeroes ==
    /\ pcG = "call"
    /\ IF groupHeroesThrows(gHeroes, gHeroNames)
       THEN /\ pcG' = "threw"
            /\ UNCHANGED gResult
       ELSE /\ pcG' = "returned"
            /\ gResult' = groupHeroes(gHeroes, gHeroNames)
    /\ UNCHANGED <<gHeroes, gHeroNames>>
    /\ UNCHANGED timeVars
    /\ UNCHANGED nomVars
    /\ UNCHANGED <<matches, filteredMatches, results, pcS>>
    /\ UNCHANGED netVars
    /\ UNCHANGED lfgVars

NextGroup == GroupHeroes

SpecGroup == InitGroup /\ [][NextGroup]_vars

\* C18: with a name for every hero groupHeroes returns; what it returns has
\* exactly one entry per distinct heroId of the input, with that hero's
\* numbers of won and lost matches (summing to the input length over all
\* entries), ordered by wins + losses descending and among equal totals by
\* display name ascending; [A(win), A(loss), B(win)] gives [{A,1,1},{B,1,0}].
C18_GroupHeroes ==
    /\ (pcG # "call" /\ Len(gHeroNames) = Len(gHeroes)) => pcG = "returned"
    /\ (pcG = "returned") =>
         LET g   == gResult
             n   == Len(gHeroes)
             Ids == {gHeroes[i].heroId : i \in 1..n}
             Total(e) == e.wins + e.losses
         IN  /\ Len(g) = Cardinality(Ids)
             /\ {g[k].heroId : k \in 1..Len(g)} = Ids
             /\ \A k \in 1..Len(g) :
                   /\ g[k].wins = Cardinality({i \in 1..n :
                                     gHeroes[i].heroId = g[k].heroId /\ gHeroes[i].isWin})
                   /\ g[k].losses = Cardinality({i \in 1..n :
                                     gHeroes[i].heroId = g[k].heroId /\ ~gHeroes[i].isWin})
             /\ SumOver([k \in 1..Len(g) |-> Total(g[k])]) = n
             /\ \A k, l \in 1..Len(g) :
                   k < l => /\ Total(g[k]) >= Total(g[l])
                            /\ (Total(g[k]) = Total(g[l]) /\ g[k].name # <<>>
                                /\ g[l].name # <<>>)
                                  => g[k].name[1] <= g[l].name[1]
             /\ (gHeroes = <<[heroId |-> 1, isWin |-> TRUE],
                             [heroId |-> 1, isWin |-> FALSE],
                             [heroId |-> 2, isWin |-> TRUE]>>
                 /\ gHeroNames # <<>>)
                   => g = <<[heroId |-> 1, name |-> <<1>>, wins |-> 1, losses |-> 1],
                            [heroId |-> 2, name |-> <<2>>, wins |-> 1, losses |-> 0]>>

\* groupHeroes returned for three matches on three heroes given in
\* descending name order: three entries of equal totals, ordered by name.
C18_Witness ==
    /\ pcG = "returned"
    /\ Len(gHeroNames) = 3
    /\ gHeroes[1].heroId = 4
    /\ gHeroes[2].heroId = 2
    /\ gHeroes[3].heroId = 1
    /\ gResult[1].heroId = 1
    /\ gResult[3].heroId = 4

\* ------------------------------------------------------------------------
\* Repeated computations: calculateNominations is called again on the same
\* arguments after it finished, while calls of calculateStats on one match
\* list proceed in between.  The clock stands still here.
\* ------------------------------------------------------------------------

\* The match lists the players of the repeated computations have.
AgainLists == {2, 5, 7, 9}

InitAgain ==
    /\ now = Tue0600 + 6 * 3600
    /\ ticks = 0
    /\ period = "today"
    /\ pcW = "start"
    /\ periodStart = <<>>
    /\ periodEnd = <<>>
    /\ startClock = 0
    /\ endClock = 0
    /\ \E lists \in [1..MaxPlayers -> AgainLists] :
          allStats = StatsInput(MaxPlayers, lists, "descending")
    /\ activePlayers = <<>>
    /\ heroNamesMap = <<>>
    /\ pc = "format"
    /\ nominations = <<>>
    /\ playerNominationCount = <<>>
    /\ evalLog = <<>>
    /\ outcome = "running"
    /\ nomResults = <<>>
    /\ lines = <<>>
    /\ matches = <<MatchPool[1], MatchPool[2], MatchPool[8]>>
    /\ filteredMatches = <<>>
    /\ results = <<>>
    /\ pcS = "called"
    /\ IdleGroup
    /\ IdleNet
    /\ IdleLfg

\* calculateNominations is called again with the same arguments; the caller
\* keeps what the finished call gave.
CallNominationsAgain ==
    /\ pc = "done"
    /\ Len(nomResults) + 1 < MaxCalls
    /\ nomResults' = Append(nomResults, [outcome |-> outcome,
                                         nominations |-> nominations])
    /\ pc' = "entry"
    /\ UNCHANGED <<allStats, activePlayers, heroNamesMap, nominations,
                   playerNominationCount, evalLog, outcome, lines>>
    /\ UNCHANGED timeVars
    /\ UNCHANGED statVars
    /\ UNCHANGED groupVars
    /\ UNCHANGED netVars
    /\ UNCHANGED lfgVars

NextAgain ==
    \/ FormatStatsMessage \/ EnterCalculateNominations \/ EvaluateCategory
    \/ CallNominationsAgain
    \/ ReadPeriodStart \/ ReadPeriodEnd
    \/ FilterMatches \/ ReturnStats \/ CallAgain

SpecAgain == InitAgain /\ [][NextAgain]_vars

\* No step changes an argument: the PlayerStats and match lists handed in,
\* and after formatStatsMessage built them the arguments of
\* calculateNominations.
ArgumentsUnchanged ==
    /\ allStats' = allStats
    /\ matches' = matches
    /\ (pc # "format") => /\ activePlayers' = activePlayers
                          /\ heroNamesMap' = heroNamesMap

\* Each computation is as if run alone: the counts are all zero when the
\* first category is reached, a finished calculateNominations call gave what
\* every earlier call on these arguments gave, a finished calculateStats
\* call gave what every earlier one gave, which is the value of the
\* arguments and the clock alone.
AsIfAlone ==
    /\ (pc = Titles[1]) =>
          \A id \in DOMAIN playerNominationCount : playerNominationCount[id] = 0
    /\ (pc = "done") =>
          \A k \in 1..Len(nomResults) :
              nomResults[k] = [outcome |-> outcome, nominations |-> nominations]
    /\ \A k \in 1..Len(results) :
          results[k] = calculateStats(StatsArgs.playerId, StatsArgs.playerName,
                                      matches, period, StatsArgs.avgApm,
                                      StatsArgs.rank, now)

\* C19: calculateStats and calculateNominations leave their arguments
\* unchanged and keep no state between calls: the nomination counts start
\* at zero in every computation, and in any sequence or interleaving each
\* computation gives the result it gives alone.
C19_NoSharedState == [](AsIfAlone) /\ [][ArgumentsUnchanged]_vars

\* A second calculateNominations call finished with awards, after a first
\* one that left a player at the cap, and two calculateStats calls finished.
C19_Witness ==
    /\ pc = "done"
    /\ Len(nomResults) = 1
    /\ Len(nomResults[1].nominations) > 2
    /\ \E id \in DOMAIN playerNominationCount : playerNominationCount[id] = 2
    /\ Len(results) = 2
    /\ results[2].totalMatches = 2

\* Positions of the message lines of a kind that name player id.
LinesOf(kind, id) ==
    {k \in 1..Len(lines) :
        /\ lines[k].kind = kind
        /\ \E j \in 1..Len(lines[k].players) : lines[k].players[j] = id}

\* The players whose cards the message has, in message order.
CardOrder ==
    LET IsCard(l) == l.kind = "card"
        cs == SelectSeq(lines, IsCard)
    IN  [k \in 1..Len(cs) |-> cs[k].players[1]]

\* The PlayerStats handed to formatStatsMessage for player id.
InputStatsOf(id) ==
    allStats[CHOOSE i \in 1..Len(allStats) : allStats[i].playerId = id]

\* C20: in the message every player with totalMatches > 0 has exactly one
\* card and is in no inactive line; every player with totalMatches = 0 has
\* no card and is named once in the single inactive line, which comes after
\* every card; the cards are ordered by totalMatches descending and among
\* equal totalMatches by winRate descending.
C20_MessageOrder ==
    (pc \notin {"idle", "format"}) =>
      LET Ids == {allStats[i].playerId : i \in 1..Len(allStats)}
          InactiveLines == {k \in 1..Len(lines) : lines[k].kind = "inactive"}
          Cards == {k \in 1..Len(lines) : lines[k].kind = "card"}
          co == CardOrder
      IN  /\ Cardinality(InactiveLines) <= 1
          /\ \A id \in Ids :
                IF InputStatsOf(id).totalMatches > 0
                THEN /\ Cardinality(LinesOf("card", id)) = 1
                     /\ LinesOf("inactive", id) = {}
                ELSE /\ LinesOf("card", id) = {}
                     /\ Cardinality(LinesOf("inactive", id)) = 1
                     /\ \A k \in InactiveLines :
                           Cardinality({j \in 1..Len(lines[k].players) :
                                           lines[k].players[j] = id}) = 1
          /\ \A c \in Cards, k \in InactiveLines : c < k
          /\ \A k, l \in 1..Len(co) :
                k < l =>
                  LET a == InputStatsOf(co[k])
                      b == InputStatsOf(co[l])
                  IN  \/ a.totalMatches > b.totalMatches
                      \/ (a.totalMatches = b.totalMatches /\ a.winRate >= b.winRate)

\* A message for an input that starts with a player without matches,
\* followed by two players with one match each, the second with the higher
\* win rate: its card comes first.
C20_Witness ==
    /\ pc \notin {"idle", "format"}
    /\ allStats[1].totalMatches = 0
    /\ allStats[2].totalMatches = 1
    /\ allStats[3].totalMatches = 1
    /\ allStats[2].winRate < allStats[3].winRate
    /\ CardOrder = <<allStats[3].playerId, allStats[2].playerId>>

\* ------------------------------------------------------------------------
\* Stats messages of a larger group: two players with one or two matches in
\* the week and MaxRegulars players with three.  With this many players the
\* cap leaves awards over for the last categories.  The players with three
\* matches are listed by match list number; NameOrders gives the names both
\* ways round.
\* ------------------------------------------------------------------------
MaxRegulars == 6

CasualLists == {3, 4, 9}
RegularLists == {5, 6, 8}

SquadLists ==
    {l \in [1..(2 + MaxRegulars) -> CasualLists \cup RegularLists] :
        /\ \A i \in 1..2 : l[i] \in CasualLists
        /\ \A i \in 3..(2 + MaxRegulars) : l[i] \in RegularLists
        /\ \A i \in 3..(1 + MaxRegulars) : l[i] <= l[i + 1]}

InitSquad ==
    /\ IdleTime
    /\ IdleStats
    /\ IdleGroup
    /\ \E lists \in SquadLists, order \in NameOrders :
          allStats = StatsInput(2 + MaxRegulars, lists, order)
    /\ activePlayers = <<>>
    /\ heroNamesMap = <<>>
    /\ pc = "format"
    /\ nominations = <<>>
    /\ playerNominationCount = <<>>
    /\ evalLog = <<>>
    /\ outcome = "running"
    /\ nomResults = <<>>
    /\ lines = <<>>
    /\ IdleNet
    /\ IdleLfg

SpecSquad == InitSquad /\ [][NextNom]_vars

\* ------------------------------------------------------------------------
\* Gates of the categories
\* ------------------------------------------------------------------------
\* The titles awarded inside `if (eligibleForNew.length > 0)`.
LaterTitles == {Titles[i] : i \in FirstNewIndex..Len(Titles)}

\* Games and wins of player p on hero h, counted on p.heroes.
GamesOn(p, h) == Cardinality({i \in 1..Len(p.heroes) : p.heroes[i].heroId = h})
WinsOn(p, h) ==
    Cardinality({i \in 1..Len(p.heroes) : p.heroes[i].heroId = h /\ p.heroes[i].isWin})

\* The heroes player p has played most often.
MostPlayedHeroes(p) ==
    LET hs == {p.heroes[i].heroId : i \in 1..Len(p.heroes)}
    IN  {h \in hs : \A g \in hs : GamesOn(p, g) <= GamesOn(p, h)}

\* C21: every winner of a later category (Марафонец .. Утренний страж) has
\* totalMatches >= 3; the Камбэкер winner has longMatches >= 2, the Мейнер
\* winner has at least 3 games and at least 60% wins on a most-played hero,
\* the Ночной страж winner at least 3 night matches and the Утренний страж
\* winner at least 3 morning matches.
C21_LaterGates ==
    \A i \in 1..Len(nominations) :
        LET t == nominations[i].title
            p == StatsOfId(nominations[i].player)
        IN  t \in LaterTitles =>
              /\ p.totalMatches >= 3
              /\ t = "Comebacker" => p.longMatches >= 2
              /\ t = "Mainer" =>
                    \E h \in MostPlayedHeroes(p) :
                        /\ GamesOn(p, h) >= 3
                        /\ WinsOn(p, h) * 100 >= 60 * GamesOn(p, h)
              /\ t = "NightGuard" => p.nightMatches >= 3
              /\ t = "MorningGuard" => p.morningMatches >= 3

\* A returned list with a Мейнер, a Камбэкер and a Ночной страж winner while
\* another active player has fewer than 3 matches.
C21_Witness ==
    /\ pc = "done"
    /\ outcome = "returned"
    /\ \E i \in 1..Len(activePlayers) :
          activePlayers[i].totalMatches \in 1..2
    /\ \A t \in {"Mainer", "Comebacker", "NightGuard"} :
          \E i \in 1..Len(nominations) : nominations[i].title = t

\* (totalKills + totalAssists) / totalMatches rounded to one decimal is below
\* 10: the quotient is below 9.95.  Never so for a player without matches.
BelowTenPerGame(p) ==
    /\ p.totalMatches > 0
    /\ (p.totalKills + p.totalAssists) * 20 < 199 * p.totalMatches

\* C22: the Бот award only goes to a player whose kills+assists per game,
\* rounded to one decimal, is below 10, the next such player when the
\* lowest one is at the cap; with no such player among the active players
\* the category has no candidates and no winner.
C22_BotBelowTen ==
    /\ \A i \in 1..Len(nominations) :
          nominations[i].title = "Bot" =>
              BelowTenPerGame(StatsOfId(nominations[i].player))
    /\ \A k \in Logged :
          evalLog[k].title = "Bot" =>
              /\ \A j \in 1..Len(evalLog[k].cands) :
                    BelowTenPerGame(StatsOfId(evalLog[k].cands[j]))
              /\ (\A i \in 1..Len(activePlayers) : ~BelowTenPerGame(activePlayers[i]))
                    => (evalLog[k].cands = <<>> /\ evalLog[k].winner = <<>>)

\* A finished computation in which the lowest-ranked Бот candidate was at
\* the cap and the award went to the next one, a third player being at 10
\* or above.
C22_Witness ==
    /\ pc = "done"
    /\ outcome = "returned"
    /\ \E k \in Logged :
          /\ evalLog[k].title = "Bot"
          /\ evalLog[k].winner # <<>>
          /\ Len(evalLog[k].cands) >= 2
          /\ evalLog[k].winner[1] = evalLog[k].cands[2]
          /\ evalLog[k].before[evalLog[k].cands[1]] = 2
    /\ \E i \in 1..Len(activePlayers) : ~BelowTenPerGame(activePlayers[i])

\* The titles player id holds in the result list.
TitlesOf(id) ==
    {nominations[i].title : i \in {j \in 1..Len(nominations) : nominations[j].player = id}}

\* C23: in one computation no player holds both Клоун and Мейнер, nor both
\* Лузер and Везунчик; the Клоун winner played at least 70% of the matches
\* on the most-played hero with less than 50% wins on it, the Лузер winner
\* has winRate <= 49 and the Везунчик winner winRate >= 60.
C23_NoContradictoryAwards ==
    /\ \A id \in PlayerIdsOf(activePlayers) :
          /\ ~({"Clown", "Mainer"} \subseteq TitlesOf(id))
          /\ ~({"Luzer", "Lucky"} \subseteq TitlesOf(id))
    /\ \A i \in 1..Len(nominations) :
          LET t == nominations[i].title
              p == StatsOfId(nominations[i].player)
          IN  /\ t = "Clown" =>
                    \E h \in MostPlayedHeroes(p) :
                        /\ GamesOn(p, h) * 10 >= 7 * p.totalMatches
                        /\ WinsOn(p, h) * 100 < 50 * GamesOn(p, h)
              /\ t = "Luzer" => p.winRate <= 49
              /\ t = "Lucky" => p.winRate >= 60

\* A returned list in which Клоун, Мейнер, Лузер and Везунчик are all
\* awarded.
C23_Witness ==
    /\ pc = "done"
    /\ outcome = "returned"
    /\ \A t \in {"Clown", "Mainer", "Luzer", "Lucky"} :
          \E i \in 1..Len(nominations) : nominations[i].title = t

\* ------------------------------------------------------------------------
\* Orderings of the input: calculateNominations is called on a list of
\* active players and, when it has finished, once more on a reordering of
\* that list with the same heroNamesMap.
\* ------------------------------------------------------------------------

\* The match lists the players of these calls have; all have matches in the
\* week, and the display names are pairwise distinct.
OrderLists == {2, 5, 7, 9}

InitOrder ==
    /\ IdleTime
    /\ IdleStats
    /\ IdleGroup
    /\ allStats = <<>>
    /\ \E lists \in [1..MaxPlayers -> OrderLists], order \in NameOrders :
          /\ activePlayers = StatsInput(MaxPlayers, lists, order)
          /\ heroNamesMap = fetchAllHeroNames(StatsInput(MaxPlayers, lists, order))
    /\ pc = "entry"
    /\ nominations = <<>>
    /\ playerNominationCount = <<>>
    /\ evalLog = <<>>
    /\ outcome = "running"
    /\ nomResults = <<>>
    /\ lines = <<>>
    /\ IdleNet
    /\ IdleLfg

\* The second call: the caller keeps what the first call gave and passes the
\* same players in another order.
CallReordered ==
    /\ pc = "done"
    /\ nomResults = <<>>
    /\ nomResults' = <<[outcome |-> outcome, nominations |-> nominations]>>
    /\ activePlayers' \in Orderings(activePlayers)
    /\ pc' = "entry"
    /\ UNCHANGED <<allStats, heroNamesMap, nominations, playerNominationCount,
                   evalLog, outcome, lines>>
    /\ UNCHANGED timeVars
    /\ UNCHANGED statVars
    /\ UNCHANGED groupVars
    /\ UNCHANGED netVars
    /\ UNCHANGED lfgVars

NextOrder == EnterCalculateNominations \/ EvaluateCategory \/ CallReordered

SpecOrder == InitOrder /\ [][NextOrder]_vars

\* The titles and winners of a nomination list, in order.
AwardList(noms) ==
    [i \in 1..Len(noms) |-> [title |-> noms[i].title, player |-> noms[i].player]]

\* C24 as stated: the list calculateNominations returns (titles, winners and
\* order) is the same for every ordering of the activePlayers array.
C24_AsStated ==
    (pc = "done" /\ Len(nomResults) = 1) =>
        /\ outcome = nomResults[1].outcome
        /\ AwardList(nominations) = AwardList(nomResults[1].nominations)

\* ------------------------------------------------------------------------
\* The two bounds of one filterMatchesByPeriod call
\* ------------------------------------------------------------------------

\* C25 as stated: in a calculateStats call for period yesterday the upper
\* bound applied to the matches is exactly 86400 seconds after the lower
\* bound, whatever the clock did between the two reads.
C25_AsStated ==
    (pcW = "done" /\ period = "yesterday") =>
        /\ periodStart # <<>>
        /\ periodEnd = <<periodStart[1] + 86400>>

\* ------------------------------------------------------------------------
\* One match list seen through the periods today, week and month: with the
\* clock standing still calculateStats is called for each of them in turn.
\* ------------------------------------------------------------------------

\* How long before now the matches of the list started, in seconds.
AgesOfMatches ==
    <<0, 3600, 6 * 3600, 18 * 3600, 86400, 2 * 86400, 6 * 86400, 7 * 86400,
      8 * 86400, 27 * 86400, 31 * 86400, 32 * 86400>>

\* A match list relative to clock value t; the wins and losses alternate,
\* starting with a win or with a loss.
MatchesBefore(t, firstWins) ==
    [i \in 1..Len(AgesOfMatches) |->
        Match(1, 0, (i % 2 = 1) = firstWins, 1, 1, 1, 2000, t - AgesOfMatches[i])]

PeriodsInTurn == <<"today", "week", "month">>

InitPeriods ==
    /\ now \in NowSet
    /\ ticks = 0
    /\ period = PeriodsInTurn[1]
    /\ pcW = "start"
    /\ periodStart = <<>>
    /\ periodEnd = <<>>
    /\ startClock = 0
    /\ endClock = 0
    /\ IdleNom
    /\ \E firstWins \in BOOLEAN : matches = MatchesBefore(now, firstWins)
    /\ filteredMatches = <<>>
    /\ results = <<>>
    /\ pcS = "called"
    /\ IdleGroup
    /\ IdleNet
    /\ IdleLfg

\* calculateStats is called on the same match list for the next period.
CallNextPeriod ==
    /\ pcS = "returned"
    /\ Len(results) < Len(PeriodsInTurn)
    /\ period' = PeriodsInTurn[Len(results) + 1]
    /\ pcS' = "called"
    /\ pcW' = "start"
    /\ periodStart' = <<>>
    /\ periodEnd' = <<>>
    /\ filteredMatches' = <<>>
    /\ UNCHANGED <<matches, results, now, ticks, startClock, endClock>>
    /\ UNCHANGED nomVars
    /\ UNCHANGED groupVars
    /\ UNCHANGED netVars
    /\ UNCHANGED lfgVars

NextPeriods ==
    \/ ReadPeriodStart \/ ReadPeriodEnd
    \/ FilterMatches \/ ReturnStats \/ CallNextPeriod

SpecPeriods == InitPeriods /\ [][NextPeriods]_vars

\* C26: for one now the today window starts no earlier than the week window
\* and no earlier than the month window; every match kept for today is kept
\* for week and for month, and totalMatches, wins and losses of today are
\* each at most those of week and of month.
C26_TodayWithinWeekAndMonth ==
    /\ getPeriodStartTimestamp("today", now) >= getPeriodStartTimestamp("week", now)
    /\ getPeriodStartTimestamp("today", now) >= getPeriodStartTimestamp("month", now)
    /\ (pcW = "done" /\ period = "today") =>
          \A i \in 1..Len(matches) :
              KeepMatch(matches[i], periodStart[1], periodEnd) =>
                  /\ matches[i].start_time >= getPeriodStartTimestamp("week", now)
                  /\ matches[i].start_time >= getPeriodStartTimestamp("month", now)
    /\ \A k \in 2..Len(results) :
          /\ results[1].totalMatches <= results[k].totalMatches
          /\ results[1].wins <= results[k].wins
          /\ results[1].losses <= results[k].losses

\* All three periods computed, today counting fewer matches than week, and
\* week and month counting different numbers: before 06:00 on the first of
\* a month, which is not a Monday.
C26_Witness ==
    /\ Len(results) = 3
    /\ BeforeDayStart(getMskTimeComponents(now))
    /\ getMskTimeComponents(now).date = 1
    /\ 0 < results[1].totalMatches
    /\ results[1].totalMatches < results[2].totalMatches
    /\ results[2].totalMatches < results[3].totalMatches

\* ------------------------------------------------------------------------
\* The OpenDota client (opendota.ts): rateLimitDelay and fetchWithRateLimit.
\* fetchAllPlayersStats starts the profile, matches and totals fetch of a
\* player together (Promise.all); with a cold cache each of them goes
\* through fetchWithRateLimit.  JavaScript runs one callback at a time, so a
\* call proceeds atomically from one await to the next; the clock moves only
\* when every call waits for a timer or a response.
\* ------------------------------------------------------------------------
RATE_LIMIT_DELAY_MS == 2000
MAX_RETRIES == 5
INITIAL_RETRY_DELAY_MS == 5000
FETCH_TIMEOUT_MS == 60000

\* At most this many requests are answered with something else than OK.
MaxFailures == 5

\* The fetchWithRateLimit calls in progress together.
FetchIds == {"profile", "matches", "totals"}

\* What becomes of a request: an OK response, HTTP 429, another HTTP status,
\* or no answer until the abort timer fires and fetch rejects.
Answers == {"ok", "429", "other", "timeout"}

\* How long a request stays unanswered.
ResponseMs == RATE_LIMIT_DELAY_MS \div 4
Latency(answer) == IF answer = "timeout" THEN FETCH_TIMEOUT_MS ELSE ResponseMs

\* Mutant: the same delay before every retry.
retryDelayFlat(attempt) == INITIAL_RETRY_DELAY_MS

\* const retryDelay = INITIAL_RETRY_DELAY_MS * Math.pow(2, attempt);
retryDelay(attempt) == INITIAL_RETRY_DELAY_MS * 2^attempt

\* The clock value the client starts at; lastRequestTime = 0 lies far back.
ClientStartMs == 10 * RATE_LIMIT_DELAY_MS

NewFetch ==
    [pc |-> "call", attempt |-> 0, due |-> 0, answer |-> "none",
     lastError |-> "null", thrown |-> "none", endedAt |-> 0]

InitFetch ==
    /\ clockMs = ClientStartMs
    /\ lastRequestTime = 0
    /\ fetchers = [f \in FetchIds |-> NewFetch]
    /\ requests = <<>>
    /\ failures = 0
    /\ IdleTime
    /\ IdleNom
    /\ IdleStats
    /\ IdleGroup
    /\ IdleLfg

\* lastRequestTime = Date.now() at the end of rateLimitDelay, and then
\* fetch(url): the request starts, and the server's answer is fixed.
StartRequest(f, call) ==
    /\ lastRequestTime' = clockMs
    /\ \E answer \in Answers :
          /\ answer # "ok" => failures < MaxFailures
          /\ failures' = IF answer = "ok" THEN failures ELSE failures + 1
          /\ requests' = Append(requests,
                [by |-> f, attempt |-> call.attempt, at |-> clockMs,
                 answer |-> answer, answered |-> clockMs + Latency(answer)])
          /\ fetchers' = [fetchers EXCEPT ![f] =
                [call EXCEPT !.pc = "response", !.answer = answer,
                             !.due = clockMs + Latency(answer)]]

\* await rateLimitDelay() at the top of the loop body: either the timer for
\* the missing time is set, or the request starts at once.
EnterRateLimitDelay(f, call) ==
    LET timeSinceLastRequest == clockMs - lastRequestTime
    IN  IF timeSinceLastRequest < RATE_LIMIT_DELAY_MS
        THEN /\ fetchers' = [fetchers EXCEPT ![f] =
                    [call EXCEPT !.pc = "delay",
                                 !.due = clockMs + (RATE_LIMIT_DELAY_MS
                                                    - timeSinceLastRequest)]]
             /\ UNCHANGED <<lastRequestTime, requests, failures>>
        ELSE StartRequest(f, call)

\* fetchWithRateLimit(url, context) is called.
CallFetch(f) ==
    /\ fetchers[f].pc = "call"
    /\ EnterRateLimitDelay(f, fetchers[f])
    /\ UNCHANGED clockMs
    /\ UNCHANGED timeVars
    /\ UNCHANGED nomVars
    /\ UNCHANGED statVars
    /\ UNCHANGED groupVars
    /\ UNCHANGED lfgVars

\* The timer of rateLimitDelay fires.
DelayOver(f) ==
    /\ fetchers[f].pc = "delay"
    /\ clockMs >= fetchers[f].due
    /\ StartRequest(f, fetchers[f])
    /\ UNCHANGED clockMs
    /\ UNCHANGED timeVars
    /\ UNCHANGED nomVars
    /\ UNCHANGED statVars
    /\ UNCHANGED groupVars
    /\ UNCHANGED lfgVars

\* await fetch(...) settles.
ResponseArrives(f) ==
    /\ fetchers[f].pc = "response"
    /\ clockMs >= fetchers[f].due
    /\ LET call == fetchers[f]
       IN  fetchers' = [fetchers EXCEPT ![f] =
              CASE call.answer = "ok" ->
                     [call EXCEPT !.pc = "returned", !.endedAt = clockMs]
                [] call.answer = "timeout" ->
                     IF call.attempt < MAX_RETRIES - 1
                     THEN [call EXCEPT !.pc = "backoff", !.lastError = "network",
                                       !.due = clockMs + retryDelay(call.attempt)]
                     ELSE [call EXCEPT !.pc = "threw", !.lastError = "network",
                                       !.thrown = "network", !.endedAt = clockMs]
                [] call.answer = "429" ->
                     [call EXCEPT !.pc = "backoff",
                                  !.due = clockMs + retryDelay(call.attempt)]
                [] OTHER ->
                     [call EXCEPT !.pc = "threw", !.thrown = "http",
                                  !.endedAt = clockMs]]
    /\ UNCHANGED <<clockMs, lastRequestTime, requests, failures>>
    /\ UNCHANGED timeVars
    /\ UNCHANGED nomVars
    /\ UNCHANGED statVars
    /\ UNCHANGED groupVars
    /\ UNCHANGED lfgVars

\* The retry timer fires: `continue`, the loop test, and the next
\* rateLimitDelay; after the last attempt `throw lastError`.
BackoffOver(f) ==
    /\ fetchers[f].pc = "backoff"
    /\ clockMs >= fetchers[f].due
    /\ LET call == fetchers[f]
           next == [call EXCEPT
                       !.attempt = call.attempt + 1,
                       !.lastError = IF call.answer = "429" THEN "429"
                                                            ELSE call.lastError]
       IN  IF next.attempt < MAX_RETRIES
           THEN EnterRateLimitDelay(f, next)
           ELSE /\ fetchers' = [fetchers EXCEPT ![f] =
                       [next EXCEPT !.pc = "threw", !.thrown = next.lastError,
                                    !.endedAt = clockMs]]
                /\ UNCHANGED <<lastRequestTime, requests, failures>>
    /\ UNCHANGED clockMs
    /\ UNCHANGED timeVars
    /\ UNCHANGED nomVars
    /\ UNCHANGED statVars
    /\ UNCHANGED groupVars
    /\ UNCHANGED lfgVars

\* Time passes until the next timer or response is due.
AdvanceClock ==
    LET waiting == {f \in FetchIds : fetchers[f].pc \in {"delay", "response", "backoff"}}
    IN  /\ waiting # {}
        /\ \A f \in FetchIds : fetchers[f].pc # "call"
        /\ \A f \in waiting : fetchers[f].due > clockMs
        /\ \E f \in waiting :
              /\ \A g \in waiting : fetchers[f].due <= fetchers[g].due
              /\ clockMs' = fetchers[f].due
        /\ UNCHANGED <<lastRequestTime, fetchers, requests, failures>>
        /\ UNCHANGED timeVars
        /\ UNCHANGED nomVars
        /\ UNCHANGED statVars
        /\ UNCHANGED groupVars
        /\ UNCHANGED lfgVars

NextFetch ==
    \/ \E f \in FetchIds : CallFetch(f)
    \/ \E f \in FetchIds : DelayOver(f)
    \/ \E f \in FetchIds : ResponseArrives(f)
    \/ \E f \in FetchIds : BackoffOver(f)
    \/ AdvanceClock

SpecFetch == InitFetch /\ [][NextFetch]_vars

\* The event loop runs every callback that is ready, and timers fire.
SpecFetchLive == SpecFetch /\ WF_vars(NextFetch)

\* C27 as stated: any two requests issued through fetchWithRateLimit start
\* at least RATE_LIMIT_DELAY_MS apart, also with several fetches in flight.
C27_AsStated ==
    \A i, j \in 1..Len(requests) :
        i < j => requests[j].at - requests[i].at >= RATE_LIMIT_DELAY_MS

\* Positions in the request log of the requests of call f, and its last one.
RequestsOf(f) == {i \in 1..Len(requests) : requests[i].by = f}
LastRequestOf(f) ==
    requests[CHOOSE i \in RequestsOf(f) : \A j \in RequestsOf(f) : j <= i]

\* The answers after which fetchWithRateLimit tries again.
Retried == {"429", "timeout"}

FetchEnded(f) == fetchers[f].pc \in {"returned", "threw"}

\* The rules of fetchWithRateLimit on the requests made so far.
RetryRules ==
    \A f \in FetchIds :
        /\ Cardinality(RequestsOf(f)) <= MAX_RETRIES
        /\ \A i \in RequestsOf(f) :
              requests[i].attempt = Cardinality({j \in RequestsOf(f) : j < i})
        /\ \A i, j \in RequestsOf(f) :
              i < j =>
                /\ requests[i].answer \in Retried
                /\ requests[j].at >= requests[i].answered
                       + INITIAL_RETRY_DELAY_MS * 2^(requests[i].attempt)
        /\ FetchEnded(f) => RequestsOf(f) # {}
        /\ fetchers[f].pc = "returned" =>
              /\ LastRequestOf(f).answer = "ok"
              /\ fetchers[f].endedAt = LastRequestOf(f).answered
        /\ fetchers[f].pc = "threw" =>
              \/ /\ LastRequestOf(f).answer = "other"
                 /\ fetchers[f].thrown = "http"
                 /\ fetchers[f].endedAt = LastRequestOf(f).answered
              \/ /\ LastRequestOf(f).answer \in Retried
                 /\ Cardinality(RequestsOf(f)) = MAX_RETRIES
                 /\ fetchers[f].thrown =
                       (IF LastRequestOf(f).answer = "429" THEN "429" ELSE "network")
        /\ \A i \in RequestsOf(f) :
              (requests[i].answer \notin Retried /\ clockMs > requests[i].answered)
                  => FetchEnded(f)

\* C28: fetchWithRateLimit makes at most MAX_RETRIES requests; it returns
\* the first OK response; it tries again only after a failed fetch or an
\* HTTP 429, not before INITIAL_RETRY_DELAY_MS * 2^attempt have passed; any
\* other status makes it fail at once; after the last failed attempt it
\* fails with the last error; and every call ends.
C28_RetriesAndTermination ==
    /\ [](RetryRules)
    /\ <>(\A f \in FetchIds : FetchEnded(f))

\* One call has failed with the 429 error after MAX_RETRIES requests, the
\* last of them answered 429 and an earlier one not answered at all, while
\* another call has returned the OK response it got.
C28_Witness ==
    \E f, g \in FetchIds :
        /\ fetchers[f].pc = "threw"
        /\ fetchers[f].thrown = "429"
        /\ Cardinality(RequestsOf(f)) = MAX_RETRIES
        /\ \E i \in RequestsOf(f) : requests[i].answer = "timeout"
        /\ fetchers[g].pc = "returned"

\* ------------------------------------------------------------------------
\* The LFG polling loop (lfg.ts): startLfgPolling runs checkPlayersAndNotify
\* at once and then from a timer every POLLING_INTERVAL_MS.  A poll awaits
\* getPlayerSummaries, which has no timeout, and awaits every sendMessage;
\* the timer does not wait for a poll to finish, so polls overlap.  Between
\* two awaits a poll runs without interruption.  The clock is read at the
\* granularity of the polling interval.
\* ------------------------------------------------------------------------
POLLING_INTERVAL_MS == 3 * 60 * 1000
NOTIFICATION_COOLDOWN_MS == 2 * 60 * 60 * 1000

\* Polls started one by one, and polls in progress together.
MaxPolls == 4
MaxInFlight == 2

\* PLAYER_IDS, in the order the summaries are iterated.
LfgPlayers == <<1, 2>>
LfgPlayerSet == {LfgPlayers[i] : i \in 1..Len(LfgPlayers)}

\* What getPlayerSummaries may resolve to: isPlayingDota of every player.
Summaries == [LfgPlayerSet -> BOOLEAN]

\* A checkPlayersAndNotify call awaiting getPlayerSummaries.
NewPoll == [phase |-> "summaries", players |-> <<>>, at |-> 0]

\* s without its k-th element.
RemoveAt(s, k) == [i \in 1..(Len(s) - 1) |-> IF i < k THEN s[i] ELSE s[i + 1]]

\* isOnCooldown(playerId)
isOnCooldown(playerId) ==
    /\ playerId \in DOMAIN lastNotificationTime
    /\ lfgNow - lastNotificationTime[playerId] < NOTIFICATION_COOLDOWN_MS

\* wasPlayingDota.get(playerId) ?? false
WasInDota(playerId) ==
    IF playerId \in DOMAIN wasPlayingDota THEN wasPlayingDota[playerId] ELSE FALSE

\* map.set(key, value)
MapSet(map, key, value) ==
    [k \in DOMAIN map \cup {key} |-> IF k = key THEN value ELSE map[k]]

\* Mutant: the warm-up phase is never entered.
WarmupPendingNever(flag) == FALSE

\* if (!isWarmupComplete)
WarmupPending(flag) == ~flag

\* The loop over the players from position i on, up to its next await: the
\* position of the first player found to have launched Dota and not on
\* cooldown, for whom sendMessage is awaited; 0 when the loop runs out.
NextSendAt(snapshot, i, cooling) ==
    LET stops == {j \in i..Len(LfgPlayers) :
                     /\ snapshot[LfgPlayers[j]]
                     /\ ~WasInDota(LfgPlayers[j])
                     /\ LfgPlayers[j] \notin cooling}
    IN  IF stops = {} THEN 0 ELSE CHOOSE j \in stops : \A l \in stops : j <= l

\* wasPlayingDota after the loop went over the positions from..to.
WasAfter(was, snapshot, from, to) ==
    [p \in DOMAIN was \cup {LfgPlayers[j] : j \in from..to} |->
        IF \E j \in from..to : LfgPlayers[j] = p THEN snapshot[p] ELSE was[p]]

\* The loop of poll k goes on from position i with wasPlayingDota = was.
RunLoop(k, snapshot, i, was, cooling) ==
    LET stop == NextSendAt(snapshot, i, cooling)
    IN  IF stop = 0
        THEN /\ wasPlayingDota' = WasAfter(was, snapshot, i, Len(LfgPlayers))
             /\ polls' = RemoveAt(polls, k)
        ELSE /\ wasPlayingDota' = WasAfter(was, snapshot, i, stop - 1)
             /\ polls' = [polls EXCEPT ![k] =
                            [phase |-> "sending", players |-> snapshot, at |-> stop]]

\* The players on cooldown at this moment.
Cooling == {p \in LfgPlayerSet : isOnCooldown(p)}

\* The state right after startLfgPolling: the initial check is under way.
InitLfg ==
    /\ lfgNow = POLLING_INTERVAL_MS
    /\ pollsRun = 1
    /\ isWarmupComplete = FALSE
    /\ wasPlayingDota = <<>>
    /\ lastNotificationTime = <<>>
    /\ polls = <<NewPoll>>
    /\ lastSent = [p \in LfgPlayerSet |-> <<>>]
    /\ IdleTime
    /\ IdleNom
    /\ IdleStats
    /\ IdleGroup
    /\ IdleNet

\* The interval timer fires: the next poll starts.
IntervalFires ==
    /\ pollsRun < MaxPolls
    /\ Len(polls) < MaxInFlight
    /\ lfgNow' = lfgNow + POLLING_INTERVAL_MS
    /\ pollsRun' = pollsRun + 1
    /\ polls' = Append(polls, NewPoll)
    /\ UNCHANGED <<isWarmupComplete, wasPlayingDota, lastNotificationTime, lastSent>>
    /\ UNCHANGED timeVars
    /\ UNCHANGED nomVars
    /\ UNCHANGED statVars
    /\ UNCHANGED groupVars
    /\ UNCHANGED netVars

\* A quiet stretch one interval short of the cooldown: every poll in it
\* finds each player where the poll before left them, so nothing is sent
\* and nothing but the clock changes.
QuietPolls ==
    /\ isWarmupComplete
    /\ polls = <<>>
    /\ lfgNow < NOTIFICATION_COOLDOWN_MS
    /\ lfgNow' = lfgNow + NOTIFICATION_COOLDOWN_MS - POLLING_INTERVAL_MS
    /\ UNCHANGED <<pollsRun, isWarmupComplete, wasPlayingDota,
                   lastNotificationTime, polls, lastSent>>
    /\ UNCHANGED timeVars
    /\ UNCHANGED nomVars
    /\ UNCHANGED statVars
    /\ UNCHANGED groupVars
    /\ UNCHANGED netVars

\* getPlayerSummaries rejects: the poll ends in the outer catch.
SummariesFail(k) ==
    /\ k \in 1..Len(polls)
    /\ polls[k].phase = "summaries"
    /\ polls' = RemoveAt(polls, k)
    /\ UNCHANGED <<lfgNow, pollsRun, isWarmupComplete, wasPlayingDota,
                   lastNotificationTime, lastSent>>
    /\ UNCHANGED timeVars
    /\ UNCHANGED nomVars
    /\ UNCHANGED statVars
    /\ UNCHANGED groupVars
    /\ UNCHANGED netVars

\* getPlayerSummaries resolves: the warm-up branch, or the loop over the
\* players up to its first awaited send.
SummariesArrive(k) ==
    /\ k \in 1..Len(polls)
    /\ polls[k].phase = "summaries"
    /\ \E snapshot \in Summaries :
          IF WarmupPending(isWarmupComplete)
          THEN /\ wasPlayingDota' = WasAfter(wasPlayingDota, snapshot, 1, Len(LfgPlayers))
               /\ lastNotificationTime' =
                     [p \in DOMAIN lastNotificationTime \cup {q \in LfgPlayerSet : snapshot[q]} |->
                         IF snapshot[p] THEN lfgNow ELSE lastNotificationTime[p]]
               /\ isWarmupComplete' = TRUE
               /\ polls' = RemoveAt(polls, k)
          ELSE /\ RunLoop(k, snapshot, 1, wasPlayingDota, Cooling)
               /\ UNCHANGED <<isWarmupComplete, lastNotificationTime>>
    /\ UNCHANGED <<lfgNow, pollsRun, lastSent>>
    /\ UNCHANGED timeVars
    /\ UNCHANGED nomVars
    /\ UNCHANGED statVars
    /\ UNCHANGED groupVars
    /\ UNCHANGED netVars

\* bot.api.sendMessage settles: recordNotification if it resolved, the
\* inner catch if it rejected; then wasPlayingDota.set and the rest of the
\* loop.
SendSettles(k) ==
    /\ k \in 1..Len(polls)
    /\ polls[k].phase = "sending"
    /\ LET playerId == LfgPlayers[polls[k].at]
           snapshot == polls[k].players
       IN  \E delivered \in BOOLEAN :
              /\ lastNotificationTime' =
                    IF delivered THEN MapSet(lastNotificationTime, playerId, lfgNow)
                                 ELSE lastNotificationTime
              /\ lastSent' =
                    IF delivered
                    THEN [lastSent EXCEPT ![playerId] =
                             IF Len(@) < 2 THEN Append(@, lfgNow) ELSE <<@[2], lfgNow>>]
                    ELSE lastSent
              /\ RunLoop(k, snapshot, polls[k].at + 1,
                         MapSet(wasPlayingDota, playerId, snapshot[playerId]),
                         IF delivered THEN Cooling \cup {playerId} ELSE Cooling)
    /\ UNCHANGED <<lfgNow, pollsRun, isWarmupComplete>>
    /\ UNCHANGED timeVars
    /\ UNCHANGED nomVars
    /\ UNCHANGED statVars
    /\ UNCHANGED groupVars
    /\ UNCHANGED netVars

NextLfg ==
    \/ IntervalFires
    \/ QuietPolls
    \/ \E k \in 1..MaxInFlight : SummariesFail(k)
    \/ \E k \in 1..MaxInFlight : SummariesArrive(k)
    \/ \E k \in 1..MaxInFlight : SendSettles(k)

SpecLfg == InitLfg /\ [][NextLfg]_vars

\* Nothing has been sent and no send is awaited.
NothingSent ==
    /\ \A p \in LfgPlayerSet : lastSent[p] = <<>>
    /\ \A k \in 1..Len(polls) : polls[k].phase # "sending"

\* The step that completes the warm-up: the poll whose summaries arrive
\* first.
WarmupStep == ~isWarmupComplete /\ isWarmupComplete'

\* C29: until the first poll has got its summaries nothing is sent and the
\* maps stay empty; that poll sends nothing, records for every player
\* whether they are in Dota, starts the cooldown of exactly those who are,
\* and ends; notifications come from later polls only.
C29_WarmupSendsNothing ==
    /\ [](~isWarmupComplete =>
            /\ NothingSent
            /\ wasPlayingDota = <<>>
            /\ lastNotificationTime = <<>>)
    /\ [][WarmupStep =>
            /\ lastSent' = lastSent
            /\ Len(polls') = Len(polls) - 1
            /\ \A k \in 1..Len(polls') : polls'[k].phase # "sending"
            /\ wasPlayingDota' \in Summaries
            /\ DOMAIN lastNotificationTime' = {p \in LfgPlayerSet : wasPlayingDota'[p]}
            /\ \A p \in DOMAIN lastNotificationTime' :
                  lastNotificationTime'[p] = lfgNow]_vars

\* The first poll failed, the second did the warm-up with one player in
\* Dota, whose cooldown runs without anything sent for them, and a later
\* poll has sent a notification for the other player.
C29_Witness ==
    /\ isWarmupComplete
    /\ pollsRun >= 3
    /\ \E p, q \in LfgPlayerSet :
          /\ p \in DOMAIN lastNotificationTime
          /\ lastNotificationTime[p] = 2 * POLLING_INTERVAL_MS
          /\ lastSent[p] = <<>>
          /\ lastSent[q] # <<>>

\* C30 as stated: two notifications for one player are never sent less
\* than NOTIFICATION_COOLDOWN_MS apart, also when polls overlap.
C30_AsStated ==
    \A p \in LfgPlayerSet :
        Len(lastSent[p]) = 2 =>
            lastSent[p][2] - lastSent[p][1] >= NOTIFICATION_COOLDOWN_MS

====
